---- MODULE Spec2Model ----
(***************************************************************************)
(* RPKI validation of bgpkit-commons: the RpkiTrie (ROAs keyed by exact    *)
(* prefix, ASPAs), its validation functions, and the loading of a trie     *)
(* into the BgpkitCommons context.                                         *)
(*                                                                         *)
(* Addresses are scaled down: an IPv4 address has V4Bits bits and an IPv6  *)
(* address V6Bits bits; a network is [fam, addr, len] with addr the        *)
(* network address. Option<T> is a sequence: <<>> is None, <<x>> Some(x).  *)
(***************************************************************************)
EXTENDS Integers, Sequences, FiniteSets, TLC

VARIABLES
    rt,        \* the RpkiTrie the trie operations act on: [trie, aspas, date]
    nrec,      \* number of records handed to the trie operations so far
    lastOp,    \* the last operation on rt
    lastRoa,   \* Option<Roa>: the argument of the last insert_roa
    lastRet,   \* the value the last insert_roa returned
    rpki_trie, \* BgpkitCommons.rpki_trie: Option<RpkiTrie>
    call,      \* the context method in progress: "none", "load", "reload"
    pc,        \* position of the load in progress on the context
    local,     \* the `trie` local of the load in progress
    todo,      \* documents the load in progress has still to fetch
    before,    \* rpki_trie when the load in progress (or last load) was called
    result,    \* what the last load or reload returned: "none", "ok", "err"
    nload,     \* number of loads and reloads called so far
    error,     \* Option<BgpkitCommonsError>: the error the last call returned
    source,    \* the data source the call in progress (or last call) fetches
    origin,    \* Option: the data source the context's trie was loaded from
    seen,      \* Option: what the last query since the last call read
    index,     \* [collector, date, lines]: an index.txt and the listing asked of it
    listed,    \* Option<Result<Vec<RpkiFile>>>: what list_rpkiviews_files returned
    first_file,   \* Option<RpkiFile>: the file from_rpkiviews goes on to load
    archive,       \* the entries of the .tgz that extract_file_from_tgz streams
    response,      \* chunks of the HTTP body the writer thread has not read yet
    writer,        \* position of the writer thread
    buffer,        \* the chunk the writer thread has read and not yet written
    interrupts,    \* reads of the writer thread that were interrupted
    writer_result, \* what the writer thread's closure returned
    writer_end,    \* why the writer thread left its loop
    gunzip_stdin,  \* chunks in the pipe into gunzip
    gunzip,        \* the gunzip child: "none", "run", "dead"
    gunzip_stdout, \* chunks in the pipe out of gunzip
    should_stop,   \* the AtomicBool shared by the two threads
    consumer,      \* position of extract_file_from_tgz
    file_content,  \* Option: the part of the target entry read so far
    content,       \* Option<String>: the content of the target entry
    extracted,     \* Option<Result<String>>: what extract_file_from_tgz returned
    late_writes,   \* chunks written into the pipe after should_stop was set
    document,      \* Option: the JSON document handed to serde_json last
    parsed         \* Option<RpkiClientData>: what serde_json made of it, None for Err

vars == <<rt, nrec, lastOp, lastRoa, lastRet,
          rpki_trie, call, pc, local, todo, before, result, nload,
          error, source, origin, seen,
          index, listed, first_file,
          archive, response, writer, buffer, interrupts, writer_result, writer_end,
          gunzip_stdin, gunzip, gunzip_stdout, should_stop,
          consumer, file_content, content, extracted, late_writes,
          document, parsed>>

trieVars == <<rt, nrec, lastOp, lastRoa, lastRet>>
loadVars == <<rpki_trie, call, pc, local, todo, before, result, nload,
              error, source, origin, seen>>

\* what the trie operations, and the operations of the context, leave alone
idxVars == <<index, listed, first_file>>
writerVars == <<response, writer, buffer, interrupts, writer_result, writer_end>>
consumerVars == <<consumer, file_content, content, extracted>>
tgzVars == <<archive, writerVars, gunzip_stdin, gunzip, gunzip_stdout, should_stop,
             consumerVars, late_writes>>
jsonVars == <<document, parsed>>
outsideTrie == <<loadVars, idxVars, tgzVars, jsonVars>>
outsideLoad == <<trieVars, idxVars, tgzVars, jsonVars>>
outsideIndex == <<trieVars, loadVars, tgzVars, jsonVars>>
outsideTgz == <<trieVars, loadVars, idxVars, jsonVars>>
outsideJson == <<loadVars, idxVars, tgzVars>>

----------------------------------------------------------------------------
(* Bounds of the model *)

V4Bits == 2
V6Bits == 0
MaxTime == 2
MaxRecords == 2
MaxLoads == 2
MaxUrls == 2
MaxLines == 3
MaxEntries == 2
PipeCap == 1
MaxInterrupts == 1
AsnBits == 2
TimestampBits == 3

\* the five registries from_ripe_historical fetches
NumRirs == 5

None == <<>>
Some(x) == <<x>>

RECURSIVE Pow2(_)
Pow2(n) == IF n = 0 THEN 1 ELSE 2 * Pow2(n - 1)

Families == {"v4", "v6"}
max_prefix_len(fam) == IF fam = "v4" THEN V4Bits ELSE V6Bits

Net(fam, addr, len) == [fam |-> fam, addr |-> addr, len |-> len]

\* every network of the scaled-down address space, host bits zero
Prefixes ==
    UNION { UNION { { Net(f, a * Pow2(max_prefix_len(f) - l), l) : a \in 0..(Pow2(l) - 1) }
                    : l \in 0..max_prefix_len(f) } : f \in Families }

Times == 0..MaxTime
Asns == {1, 2}
QueryAsns == {1, 2, 3}
MaxLengths == {1, 2}

----------------------------------------------------------------------------
(* ipnet: IpNet *)

network(p) == p.addr - (p.addr % Pow2(max_prefix_len(p.fam) - p.len))
broadcast(p) == network(p) + Pow2(max_prefix_len(p.fam) - p.len) - 1

\* IpNet::contains(&IpNet): false across families
contains(p, q) ==
    /\ p.fam = q.fam
    /\ network(p) <= network(q)
    /\ broadcast(q) <= broadcast(p)

prefix_len(p) == p.len

----------------------------------------------------------------------------
(* Roa, Aspa, RpkiTrie *)

Roa(prefix, asn, max_length, rir, not_before, not_after) ==
    [prefix |-> prefix, asn |-> asn, max_length |-> max_length,
     rir |-> rir, not_before |-> not_before, not_after |-> not_after]

Aspa(customer_asn, providers, expires) ==
    [customer_asn |-> customer_asn, providers |-> providers, expires |-> expires]

\* IpnetTrie::new(): no key
EmptyTrie == [k \in {} |-> <<>>]

\* RpkiTrie::new(date)
RpkiTrie_new(date) == [trie |-> EmptyTrie, aspas |-> <<>>, date |-> date]

----------------------------------------------------------------------------
(* RpkiTrie::insert_roa / insert_roas *)

\* Vec::push on the list stored under key k
\* push that overwrites the records already under the key
push_roa_replace(trie, k, roa) == [trie EXCEPT ![k] = <<roa>>]

push_roa(trie, k, roa) == [trie EXCEPT ![k] = Append(@, roa)]

\* IpnetTrie::insert(prefix, vec![roa]) for a key that is absent
insert_key(trie, k, roa) ==
    [x \in (DOMAIN trie) \cup {k} |-> IF x = k THEN <<roa>> ELSE trie[x]]

\* is_existing that compares the asn alone
is_existing_asn_only(existing_roas, roa) ==
    \E i \in 1..Len(existing_roas) : existing_roas[i].asn = roa.asn

\* is_existing that compares whole records, issuer and validity window too
is_existing_whole_record(existing_roas, roa) ==
    \E i \in 1..Len(existing_roas) : existing_roas[i] = roa

\* duplicate test of insert_roa: same asn and max_length under the same key
is_existing(existing_roas, roa) ==
    \E i \in 1..Len(existing_roas) :
        /\ existing_roas[i].asn = roa.asn
        /\ existing_roas[i].max_length = roa.max_length

\* insert_roa that returns whether the record was stored
insert_roa_returns_stored(t, roa) ==
    IF roa.prefix \in DOMAIN t.trie
    THEN IF ~is_existing(t.trie[roa.prefix], roa)
         THEN [t |-> [t EXCEPT !.trie = push_roa(t.trie, roa.prefix, roa)], ret |-> TRUE]
         ELSE [t |-> t, ret |-> FALSE]
    ELSE [t |-> [t EXCEPT !.trie = insert_key(t.trie, roa.prefix, roa)],
          ret |-> TRUE]

\* insert_roa(&mut self, roa) -> bool, as [t |-> self afterwards, ret |-> bool]
insert_roa(t, roa) ==
    IF roa.prefix \in DOMAIN t.trie
    THEN [t |-> IF ~is_existing(t.trie[roa.prefix], roa)
                THEN [t EXCEPT !.trie = push_roa(t.trie, roa.prefix, roa)]
                ELSE t,
          ret |-> FALSE]
    ELSE [t |-> [t EXCEPT !.trie = insert_key(t.trie, roa.prefix, roa)],
          ret |-> TRUE]

RECURSIVE insert_roas(_, _)
insert_roas(t, roas) ==
    IF roas = <<>> THEN t
    ELSE insert_roas(insert_roa(t, Head(roas)).t, Tail(roas))

----------------------------------------------------------------------------
(* Conversions used by merge_rpki_client_data *)

\* str::to_lowercase on the trust-anchor texts of the model
to_lowercase(s) ==
    CASE s = "AFRINIC" -> "afrinic"
      [] s = "APNIC"   -> "apnic"
      [] s = "ARIN"    -> "arin"
      [] s = "LACNIC"  -> "lacnic"
      [] s = "RIPENCC" -> "ripencc"
      [] s = "RIPE"    -> "ripe"
      [] OTHER         -> s

Rirs == {"AFRINIC", "APNIC", "ARIN", "LACNIC", "RIPENCC"}

\* impl Display for Rir: the text written for each registry
Rir_to_string(rir) ==
    CASE rir = "AFRINIC" -> "AFRINIC"
      [] rir = "APNIC"   -> "APNIC"
      [] rir = "ARIN"    -> "ARIN"
      [] rir = "LACNIC"  -> "LACNIC"
      [] rir = "RIPENCC" -> "RIPENCC"

\* Rir::from_str(s).ok()
Rir_from_str(s) ==
    LET l == to_lowercase(s) IN
    CASE l = "afrinic" -> Some("AFRINIC")
      [] l = "apnic"   -> Some("APNIC")
      [] l = "arin"    -> Some("ARIN")
      [] l = "lacnic"  -> Some("LACNIC")
      [] l = "ripe"    -> Some("RIPENCC")
      [] OTHER         -> None

\* str::parse::<IpNet>().ok(): a prefix text is [fam, addr, len]; it parses
\* when the family is one of the two, the length fits the family and the
\* address fits the address width
parse_IpNet(text) ==
    IF /\ text.fam \in Families
       /\ text.len \in 0..max_prefix_len(text.fam)
       /\ text.addr \in 0..(Pow2(max_prefix_len(text.fam)) - 1)
    THEN Some(Net(text.fam, text.addr, text.len))
    ELSE None

\* DateTime::from_timestamp(secs, 0).map(naive_utc): a time is its Unix
\* seconds; every timestamp of the model lies in chrono's range
from_timestamp(secs) == Some(secs)

----------------------------------------------------------------------------
(* RpkiTrie::merge_rpki_client_data *)

RECURSIVE merge_roas(_, _)
merge_roas(t, roas) ==
    IF roas = <<>> THEN t
    ELSE LET roa == Head(roas)
             prefix == parse_IpNet(roa.prefix)
         IN IF prefix = None
            THEN merge_roas(t, Tail(roas))
            ELSE merge_roas(
                   insert_roa(t, Roa(prefix[1], roa.asn, roa.max_length,
                                     Rir_from_str(roa.ta), None,
                                     from_timestamp(roa.expires))).t,
                   Tail(roas))

RECURSIVE merge_aspas(_, _)
merge_aspas(t, aspas) ==
    IF aspas = <<>> THEN t
    ELSE LET aspa == Head(aspas) IN
         IF ~(\E i \in 1..Len(t.aspas) : t.aspas[i].customer_asn = aspa.customer_asid)
         THEN merge_aspas(
                [t EXCEPT !.aspas = Append(@, Aspa(aspa.customer_asid, aspa.providers,
                                                   from_timestamp(aspa.expires)))],
                Tail(aspas))
         ELSE merge_aspas(t, Tail(aspas))

merge_rpki_client_data(t, data) == merge_aspas(merge_roas(t, data.roas), data.aspas)

\* RpkiTrie::from_rpki_client_data(data, date)
from_rpki_client_data(data, date) == merge_rpki_client_data(RpkiTrie_new(date), data)

----------------------------------------------------------------------------
(* RpkiTrie::lookup_by_prefix / validate / validate_check_expiry *)

\* IpnetTrie::matches(prefix): the stored keys on the path from the root of
\* the family's trie down to `prefix`, least specific first
RECURSIVE matches_from(_, _, _)
matches_from(trie, q, l) ==
    IF l > q.len THEN <<>>
    ELSE LET k == Net(q.fam, q.addr - (q.addr % Pow2(max_prefix_len(q.fam) - l)), l)
         IN (IF k \in DOMAIN trie THEN <<k>> ELSE <<>>) \o matches_from(trie, q, l + 1)

matches(trie, q) == matches_from(trie, q, 0)

\* the max_length test with > in place of >=
filter_max_length_strict(roas, prefix) ==
    SelectSeq(roas, LAMBDA roa : roa.max_length > prefix_len(prefix))

\* if roa.max_length >= prefix.prefix_len() { all_matches.push(roa.clone()) }
filter_max_length(roas, prefix) ==
    SelectSeq(roas, LAMBDA roa : roa.max_length >= prefix_len(prefix))

RECURSIVE lookup_loop(_, _, _)
lookup_loop(trie, ks, prefix) ==
    IF ks = <<>> THEN <<>>
    ELSE (IF contains(Head(ks), prefix)
          THEN filter_max_length(trie[Head(ks)], prefix)
          ELSE <<>>) \o lookup_loop(trie, Tail(ks), prefix)

lookup_by_prefix(t, prefix) == lookup_loop(t.trie, matches(t.trie, prefix), prefix)

\* validate that looks at the first match alone
validate_first_match(t, prefix, asn) ==
    LET ms == lookup_by_prefix(t, prefix) IN
    IF ms = <<>> THEN "Unknown"
    ELSE IF ms[1].asn = asn /\ ms[1].max_length >= prefix_len(prefix)
         THEN "Valid"
         ELSE "Invalid"

validate(t, prefix, asn) ==
    LET ms == lookup_by_prefix(t, prefix) IN
    IF ms = <<>> THEN "Unknown"
    ELSE IF \E i \in 1..Len(ms) :
              ms[i].asn = asn /\ ms[i].max_length >= prefix_len(prefix)
         THEN "Valid"
         ELSE "Invalid"

\* is_valid_time with both bounds exclusive
is_valid_time_exclusive(roa, check_time) ==
    /\ IF roa.not_before # None
       THEN (IF check_time <= roa.not_before[1] THEN FALSE ELSE TRUE)
       ELSE TRUE
    /\ IF roa.not_after # None
       THEN (IF check_time >= roa.not_after[1] THEN FALSE ELSE TRUE)
       ELSE TRUE

\* is_valid_time of validate_check_expiry
is_valid_time(roa, check_time) ==
    /\ IF roa.not_before # None
       THEN (IF check_time < roa.not_before[1] THEN FALSE ELSE TRUE)
       ELSE TRUE
    /\ IF roa.not_after # None
       THEN (IF check_time > roa.not_after[1] THEN FALSE ELSE TRUE)
       ELSE TRUE

\* the loop without the found_matching_asn flag: no time-valid match is Invalid
RECURSIVE expiry_loop_no_flag(_, _, _, _, _, _)
expiry_loop_no_flag(ms, i, prefix, asn, check_time, found_matching_asn) ==
    IF i > Len(ms)
    THEN "Invalid"
    ELSE IF /\ ms[i].asn = asn /\ ms[i].max_length >= prefix_len(prefix)
            /\ is_valid_time(ms[i], check_time)
         THEN "Valid"
         ELSE expiry_loop_no_flag(ms, i + 1, prefix, asn, check_time, found_matching_asn)

\* the loop that takes a time-valid record of any ASN for a match
RECURSIVE expiry_loop_ignores_asn(_, _, _, _, _, _)
expiry_loop_ignores_asn(ms, i, prefix, asn, check_time, found_matching_asn) ==
    IF i > Len(ms)
    THEN (IF found_matching_asn THEN "Unknown" ELSE "Invalid")
    ELSE IF ms[i].max_length >= prefix_len(prefix)
         THEN IF is_valid_time(ms[i], check_time)
              THEN "Valid"
              ELSE expiry_loop_ignores_asn(ms, i + 1, prefix, asn, check_time, TRUE)
         ELSE expiry_loop_ignores_asn(ms, i + 1, prefix, asn, check_time,
                                      found_matching_asn)

\* the for loop of validate_check_expiry over matches[i..], with the flag
RECURSIVE expiry_loop(_, _, _, _, _, _)
expiry_loop(ms, i, prefix, asn, check_time, found_matching_asn) ==
    IF i > Len(ms)
    THEN (IF found_matching_asn THEN "Unknown" ELSE "Invalid")
    ELSE IF ms[i].asn = asn /\ ms[i].max_length >= prefix_len(prefix)
         THEN IF is_valid_time(ms[i], check_time)
              THEN "Valid"
              ELSE expiry_loop(ms, i + 1, prefix, asn, check_time, TRUE)
         ELSE expiry_loop(ms, i + 1, prefix, asn, check_time, found_matching_asn)

\* check_time is Option<NaiveDateTime>; now is what Utc::now() returns
validate_check_expiry(t, prefix, asn, check_time, now) ==
    LET ms == lookup_by_prefix(t, prefix) IN
    IF ms = <<>> THEN "Unknown"
    ELSE expiry_loop(ms, 1, prefix, asn,
                     IF check_time = None THEN now ELSE check_time[1], FALSE)

----------------------------------------------------------------------------
(* Inputs of the trie operations *)

\* keys that are inserted: a covering IPv4 network and a more specific one
KeyPrefixes == {Net("v4", 0, 0), Net("v4", 0, 1)}

\* issuer and validity window of the inserted records: no issuer and no
\* bound, or an issuer and the window [1, 1]
Metas ==
    { [rir |-> None,         not_before |-> None,    not_after |-> None],
      [rir |-> Some("ARIN"), not_before |-> Some(1), not_after |-> Some(1)] }

\* the Roa values handed to insert_roa and insert_roas; the IPv6 record is
\* keyed under the network that covers every IPv6 address, and one record
\* has a max_length below the length of its own prefix
RoaInputs ==
    { Roa(p, a, m, x.rir, x.not_before, x.not_after) :
        p \in KeyPrefixes, a \in Asns, m \in MaxLengths, x \in Metas }
    \cup { Roa(Net("v6", 0, 0), 1, 2, None, None, None),
           Roa(Net("v4", 0, 1), 1, 0, None, None, None) }

PrefixText(fam, addr, len) == [fam |-> fam, addr |-> addr, len |-> len]

\* RpkiClientRoaEntry values of the merged documents
RoaEntries ==
    { [prefix |-> t, max_length |-> 2, asn |-> a, ta |-> "arin", expires |-> 1] :
        t \in {PrefixText("v4", 0, 1), PrefixText("junk", 0, 0)}, a \in Asns }

\* RpkiClientAspaEntry values of the merged documents
AspaEntries ==
    { [customer_asid |-> 1, expires |-> 1, providers |-> ps] : ps \in {<<3>>, <<3, 4>>} }

SeqsUpTo(S, n) == UNION { [1..k -> S] : k \in 0..n }

\* RpkiClientData
ClientData(roas, aspas) == [roas |-> roas, aspas |-> aspas]

----------------------------------------------------------------------------
(* The trie operations as actions on rt *)

InsertRoa(roa) ==
    /\ nrec < MaxRecords
    /\ LET r == insert_roa(rt, roa) IN
         /\ rt' = r.t
         /\ lastRet' = r.ret
    /\ lastOp' = "insert_roa"
    /\ lastRoa' = Some(roa)
    /\ nrec' = nrec + 1
    /\ UNCHANGED outsideTrie

InsertRoas(roas) ==
    /\ Len(roas) >= 1
    /\ nrec + Len(roas) <= MaxRecords
    /\ rt' = insert_roas(rt, roas)
    /\ lastOp' = "insert_roas"
    /\ lastRoa' = None
    /\ lastRet' = FALSE
    /\ nrec' = nrec + Len(roas)
    /\ UNCHANGED outsideTrie

Merge(data) ==
    /\ Len(data.roas) + Len(data.aspas) >= 1
    /\ nrec + Len(data.roas) + Len(data.aspas) <= MaxRecords
    /\ rt' = merge_rpki_client_data(rt, data)
    /\ lastOp' = "merge"
    /\ lastRoa' = None
    /\ lastRet' = FALSE
    /\ nrec' = nrec + Len(data.roas) + Len(data.aspas)
    /\ UNCHANGED outsideTrie

----------------------------------------------------------------------------
(* Loading a trie into the BgpkitCommons context *)

Dates == {"2024-01-04"}
Sources == {"Ripe", "RpkiViews"}

\* the documents the sources serve: rpki-client JSON, already deserialized
DocRoa(text, asn, ta, expires) ==
    [prefix |-> text, max_length |-> 2, asn |-> asn, ta |-> ta, expires |-> expires]
DocAspa(customer, providers, expires) ==
    [customer_asid |-> customer, expires |-> expires, providers |-> providers]

LoadDocs ==
    { ClientData(<<DocRoa(PrefixText("v4", 0, 1), 1, "arin", 1)>>,
                 <<DocAspa(1, <<3>>, 1)>>),
      ClientData(<<DocRoa(PrefixText("v4", 0, 1), 1, "apnic", 2),
                   DocRoa(PrefixText("junk", 0, 0), 2, "arin", 1)>>,
                 <<DocAspa(1, <<4>>, 2), DocAspa(2, <<3>>, 2)>>),
      ClientData(<<DocRoa(PrefixText("v6", 0, 0), 2, "ripe", 2)>>,
                 <<DocAspa(2, <<4>>, 1), DocAspa(2, <<3, 4>>, 2)>>) }

(* rpkiviews: list_rpkiviews_files and the choice made by from_rpkiviews *)

\* a whitespace-separated field of an index line that is not a path: digits
\* with an optional sign, or something else
Num(n) == [num |-> TRUE, val |-> n]
NotNum == [num |-> FALSE, val |-> 0]

\* str::parse::<i64>()
parse_i64(tok) == IF tok.num THEN Some(tok.val) ELSE None

\* str::parse::<u64>(): no sign
parse_u64(tok) == IF tok.num /\ tok.val >= 0 THEN Some(tok.val) ELSE None

\* a path of the index: directory, file stem, extension
Path(dir, stem, ext) == [dir |-> dir, stem |-> stem, ext |-> ext]

\* format!("{:04}/{:02}/{:02}/", date.year(), date.month(), date.day())
date_prefix(date) ==
    CASE date = "2024-01-04" -> "2024/01/04/"
      [] date = "2024-01-05" -> "2024/01/05/"
      [] OTHER               -> "0000/00/00/"

\* path.starts_with(&date_prefix) for the paths of the model, whose directory
\* is a date directory
starts_with(path, prefix) == path.dir = prefix

\* path.ends_with(".tgz")
ends_with_tgz(path) == path.ext = ".tgz"

\* path.contains("/rpki-"): the directory ends in "/", so the stem decides
contains_rpki(path) == path.stem \in {"rpki-a", "rpki-b"}

\* RpkiViewsCollector::base_url
base_url(collector) ==
    CASE collector = "SoborostNet"  -> "https://josephine.sobornost.net/rpkidata"
      [] collector = "KerfuffleNet" -> "https://rpkiviews.kerfuffle.net/rpkidata"
      [] OTHER                      -> "https://amber.massars.net/rpkidata"

\* format!("{}/{}", base_url, path)
Url(base, path) == [base |-> base, path |-> path]

RpkiFile(url, timestamp, size, collector) ==
    [url |-> url, timestamp |-> timestamp, size |-> Some(size), rir |-> None,
     collector |-> Some(collector)]

\* DateTime::from_timestamp(secs, 0).unwrap_or_else(|| epoch)
timestamp_or_epoch(secs) ==
    IF from_timestamp(secs) = None THEN 0 ELSE from_timestamp(secs)[1]

\* the body of the for loop of list_rpkiviews_files over the lines, which are
\* given split at whitespace
RECURSIVE list_loop(_, _, _, _)
list_loop(collector, date, lines, files) ==
    IF lines = <<>> THEN files
    ELSE LET parts == Head(lines)
             rest  == Tail(lines)
         IN IF Len(parts) < 3 THEN list_loop(collector, date, rest, files)
            ELSE LET path == parts[1]
                     timestamp_secs == parse_i64(parts[2])
                     size == parse_u64(parts[3])
                 IN IF timestamp_secs = None THEN list_loop(collector, date, rest, files)
                    ELSE IF size = None THEN list_loop(collector, date, rest, files)
                    ELSE IF /\ starts_with(path, date_prefix(date))
                            /\ ends_with_tgz(path)
                            /\ contains_rpki(path)
                         THEN list_loop(collector, date, rest,
                                Append(files,
                                  RpkiFile(Url(base_url(collector), path),
                                           timestamp_or_epoch(timestamp_secs[1]),
                                           size[1], collector)))
                         ELSE list_loop(collector, date, rest, files)

\* a sort that leaves the files in the order of the index
sort_by_key_none(files) == files

\* files.sort_by_key(|f| f.timestamp): stable, ascending
RECURSIVE sort_by_key(_)
sort_by_key(files) ==
    IF files = <<>> THEN <<>>
    ELSE LET sorted == sort_by_key(SubSeq(files, 1, Len(files) - 1))
             f == files[Len(files)]
             before_f == SelectSeq(sorted, LAMBDA g : g.timestamp <= f.timestamp)
             after_f  == SelectSeq(sorted, LAMBDA g : g.timestamp > f.timestamp)
         IN before_f \o <<f>> \o after_f

\* list_rpkiviews_files(collector, date) given the lines read from index.txt
list_rpkiviews_files(collector, date, lines) ==
    sort_by_key(list_loop(collector, date, lines, <<>>))

\* files.first() of from_rpkiviews
first_of(files) == IF files = <<>> THEN None ELSE Some(files[1])

\* BgpkitCommonsError: the variant, the data_source of a DataSourceError, and
\* the failure that caused it
Error(kind, data_source, cause) ==
    [kind |-> kind, data_source |-> data_source, cause |-> cause]

\* the lines of the index.txt a collector serves to a load
LoadIndexes ==
    { <<>>,
      << <<Path("2024/01/05/", "rpki-a", ".tgz"), Num(0), Num(5)>> >>,
      << <<Path("2024/01/04/", "rpki-a", ".tgz"), Num(2), Num(5)>>,
         <<Path("2024/01/04/", "rpki-b", ".tgz"), Num(1), Num(5)>> >> }

\* Result<RpkiTrie>; trie is the `trie` local of the function that returned
Ok(t) == [ok |-> TRUE, trie |-> t, error |-> None]
Err(t, e) == [ok |-> FALSE, trie |-> t, error |-> Some(e)]

\* the Vec<CfAspaEntry> of the document, taken over entry by entry
RECURSIVE cf_aspas(_)
cf_aspas(aspas) ==
    IF aspas = <<>> THEN <<>>
    ELSE <<Aspa(Head(aspas).customer_asid, Head(aspas).providers,
                from_timestamp(Head(aspas).expires))>> \o cf_aspas(Tail(aspas))

\* the for loop of from_cloudflare: an unparseable prefix ends it with Err
RECURSIVE cf_roas(_, _)
cf_roas(t, roas) ==
    IF roas = <<>> THEN Ok(t)
    ELSE LET roa == Head(roas)
             prefix == parse_IpNet(roa.prefix)
         IN IF prefix = None THEN Err(t, Error("IpNetError", "", "prefix"))
            ELSE cf_roas(insert_roa(t, Roa(prefix[1], roa.asn, roa.max_length,
                                          Rir_from_str(roa.ta), None,
                                          from_timestamp(roa.expires))).t,
                         Tail(roas))

\* RpkiTrie::from_cloudflare() once the document is fetched
from_cloudflare(data) ==
    cf_roas([trie |-> EmptyTrie, aspas |-> cf_aspas(data.aspas), date |-> None],
            data.roas)

\* the statement that adopts the partial trie when the load failed
load_assign_partial(old, res) == Some(res.trie)

\* self.rpki_trie = Some(RpkiTrie::from_...(..)?)
load_assign(old, res) == IF res.ok THEN Some(res.trie) ELSE old

\* RpkiTrie::reload: self.trie = trie.trie
reload_set_trie(old, t) == Some([old[1] EXCEPT !.trie = t.trie])

\* RpkiTrie::reload: self.aspas = trie.aspas
reload_set_aspas(old, t) == Some([old[1] EXCEPT !.aspas = t.aspas])

\* RpkiTrie::reload: let trie = RpkiTrie::from_...(..)?; self.trie = trie.trie;
\* self.aspas = trie.aspas
reload_assign(old, res) ==
    IF res.ok
    THEN reload_set_aspas(reload_set_trie(old, res.trie), res.trie)
    ELSE old

assign(old, res) ==
    IF call = "reload" THEN reload_assign(old, res) ELSE load_assign(old, res)

\* a data source: which loader, for which date, over how many given urls
Src(kind, date_opt, n) == [kind |-> kind, date |-> date_opt, urls |-> n]

\* the positions at which the running from_* function fetches
FetchingPcs == {"cloudflare", "ripe", "ripe_files", "rpkiviews", "rpkiviews_file",
                "rpkiviews_files"}

\* no index has been read
NoIndex == [collector |-> "SoborostNet", date |-> "2024-01-04", lines |-> <<>>]

Begin(c, p, t, n, s) ==
    /\ pc = "idle"
    /\ nload < MaxLoads
    /\ call' = c
    /\ pc' = p
    /\ local' = Some(t)
    /\ todo' = n
    /\ before' = rpki_trie
    /\ result' = "none"
    /\ error' = None
    /\ source' = s
    /\ seen' = None
    /\ nload' = nload + 1
    /\ index' = NoIndex
    /\ listed' = None
    /\ first_file' = None
    /\ UNCHANGED <<rpki_trie, origin>>
    /\ UNCHANGED <<trieVars, tgzVars, jsonVars>>

\* BgpkitCommons::load_rpki(date_opt)
LoadRpki(date_opt) ==
    IF date_opt = None
    THEN Begin("load", "cloudflare", RpkiTrie_new(None), 1, Src("Cloudflare", None, 0))
    ELSE Begin("load", "ripe", RpkiTrie_new(date_opt), NumRirs, Src("Ripe", date_opt, 0))

\* BgpkitCommons::load_rpki_historical(date, source)
LoadRpkiHistorical(date, src) ==
    IF src = "Ripe"
    THEN Begin("load", "ripe", RpkiTrie_new(Some(date)), NumRirs,
               Src("Ripe", Some(date), 0))
    ELSE Begin("load", "rpkiviews", RpkiTrie_new(Some(date)), 1,
               Src("RpkiViews", Some(date), 0))

\* BgpkitCommons::load_rpki_from_files(urls, source, date) with n urls
LoadRpkiFromFiles(n, src, date_opt) ==
    IF src = "Ripe"
    THEN Begin("load", "ripe_files", RpkiTrie_new(date_opt), n,
               Src("RipeFiles", date_opt, n))
    ELSE Begin("load", "rpkiviews_files", RpkiTrie_new(date_opt), n,
               Src("RpkiViewsFiles", date_opt, n))

\* BgpkitCommons::reload -> RpkiTrie::reload, by the date of the loaded trie
Reload ==
    /\ rpki_trie # None
    /\ IF rpki_trie[1].date # None
       THEN Begin("reload", "ripe", RpkiTrie_new(rpki_trie[1].date), NumRirs,
                  Src("Ripe", rpki_trie[1].date, 0))
       ELSE Begin("reload", "cloudflare", RpkiTrie_new(None), 1,
                  Src("Cloudflare", None, 0))

\* the from_* function returns res to load_rpki*, which assigns and returns,
\* or to RpkiTrie::reload, which makes the first of its two assignments
Return(res) ==
    /\ local' = Some(res.trie)
    /\ IF call = "reload" /\ res.ok
       THEN /\ rpki_trie' = reload_set_trie(rpki_trie, res.trie)
            /\ pc' = "swap_aspas"
            /\ UNCHANGED <<call, result, error, origin>>
       ELSE /\ rpki_trie' = assign(rpki_trie, res)
            /\ result' = IF res.ok THEN "ok" ELSE "err"
            /\ error' = res.error
            /\ origin' = IF res.ok THEN Some(source) ELSE origin
            /\ call' = "none"
            /\ pc' = "idle"
    /\ UNCHANGED <<todo, before, nload, source, seen>>
    /\ UNCHANGED <<trieVars, tgzVars, jsonVars>>

\* RpkiTrie::reload: self.aspas = trie.aspas; Ok(()), through BgpkitCommons::reload
ReloadSwapAspas ==
    /\ pc = "swap_aspas"
    /\ rpki_trie' = reload_set_aspas(rpki_trie, local[1])
    /\ result' = "ok"
    /\ error' = None
    /\ call' = "none"
    /\ pc' = "idle"
    /\ UNCHANGED <<local, todo, before, nload, source, origin, seen>>
    /\ UNCHANGED outsideLoad

\* one turn of the loop of from_ripe_historical, from_ripe_files or
\* from_rpkiviews_files whose fetch and parse succeed: the document is merged
FetchDocument(data) ==
    /\ pc \in {"ripe", "ripe_files", "rpkiviews_files"}
    /\ todo > 0
    /\ local' = Some(merge_rpki_client_data(local[1], data))
    /\ todo' = todo - 1
    /\ UNCHANGED <<rpki_trie, call, pc, before, result, nload, error, source, origin, seen>>
    /\ UNCHANGED outsideLoad

\* the ways the fetch of a document fails: the connection fails, the transfer
\* breaks off, the document is not the JSON expected
Failures == {"connect", "transfer", "format"}

\* the error the `?` of the fetching statement at position p returns
fetch_error(p, failure) ==
    CASE p \in {"ripe", "ripe_files"} ->
           \* oneio::get_reader(url)?  /  serde_json::from_reader(reader)?
           IF failure = "connect" THEN Error("OneIoError", "", failure)
                                  ELSE Error("JsonError", "", failure)
      [] p = "cloudflare" ->
           \* oneio::read_json_struct::<CfData>(..)?
           Error("OneIoError", "", failure)
      [] p = "rpkiviews" ->
           \* oneio::read_lines(&index_url)?  /  line?
           IF failure = "connect" THEN Error("OneIoError", "", failure)
                                  ELSE Error("NetworkError", "", failure)
      [] OTHER ->
           \* extract_file_from_tgz(..)?  /  RpkiClientData::from_json(..)
           IF failure = "format" THEN Error("JsonError", "", failure)
                                 ELSE Error("DataSourceError", "RPKIviews", failure)

\* a fetch or parse of a document (or of the index) fails: `?` returns Err
FetchFails(failure) ==
    /\ pc \in FetchingPcs
    /\ todo > 0
    /\ ~(pc = "rpkiviews" /\ failure = "format")
    /\ Return(Err(local[1], fetch_error(pc, failure)))
    /\ UNCHANGED idxVars

\* the loop is over: Ok(trie)
LoopEnds ==
    /\ pc \in {"ripe", "ripe_files", "rpkiviews_files"}
    /\ todo = 0
    /\ Return(Ok(local[1]))
    /\ UNCHANGED idxVars

\* from_cloudflare with the document fetched
CloudflareFetch(data) ==
    /\ pc = "cloudflare"
    /\ Return(from_cloudflare(data))
    /\ UNCHANGED idxVars

\* from_rpkiviews that answers an empty listing with an empty trie
no_files_ok(t) == Ok(t)

\* from_rpkiviews: if files.is_empty() { return Err(data_source_error(..)) }
no_files(t) == Err(t, Error("DataSourceError", "RPKIviews", "no files"))

\* from_rpkiviews: list_rpkiviews_files(collector, date)? read the lines of
\* the collector's index, then the empty test and files.first()
RpkiViewsIndex(collector, lines) ==
    /\ pc = "rpkiviews"
    /\ LET files == list_rpkiviews_files(collector, source.date[1], lines) IN
         /\ index' = [collector |-> collector, date |-> source.date[1], lines |-> lines]
         /\ listed' = Some([ok |-> TRUE, files |-> files])
         /\ first_file' = first_of(files)
         /\ IF files = <<>>
            THEN Return(no_files(local[1]))
            ELSE /\ pc' = "rpkiviews_file"
                 /\ UNCHANGED <<rpki_trie, call, local, todo, before, result, nload,
                                error, source, origin, seen>>
                 /\ UNCHANGED <<trieVars, tgzVars, jsonVars>>

\* from_rpkiviews_file(&first_file.url, Some(date)): the member is extracted
\* and parsed
RpkiViewsFile(data) ==
    /\ pc = "rpkiviews_file"
    /\ first_file # None
    /\ Return(Ok(from_rpki_client_data(data, local[1].date)))
    /\ UNCHANGED idxVars

\* a context whose methods taking &self run whatever else is running
shared_borrow_always == TRUE

\* a method taking &self may run: no &mut self borrow of the context is live
shared_borrow_allowed == call = "none"

\* Result of a query method of the context
QueryOk(value) == [ok |-> TRUE, value |-> value, error |-> "none"]
QueryErr(kind) == [ok |-> FALSE, value |-> "none", error |-> kind]

\* rpki_validate that parses the prefix before it looks at the context
rpki_validate_parse_first(ctx, asn, prefix) ==
    IF parse_IpNet(prefix) = None THEN QueryErr("IpNetError")
    ELSE IF ctx = None THEN QueryErr("ModuleNotLoaded")
    ELSE QueryOk(validate(ctx[1], parse_IpNet(prefix)[1], asn))

\* BgpkitCommons::rpki_validate(asn, prefix) on a context whose rpki_trie is ctx
rpki_validate(ctx, asn, prefix) ==
    IF ctx = None THEN QueryErr("ModuleNotLoaded")
    ELSE IF parse_IpNet(prefix) = None THEN QueryErr("IpNetError")
    ELSE QueryOk(validate(ctx[1], parse_IpNet(prefix)[1], asn))

\* BgpkitCommons::rpki_validate_check_expiry(asn, prefix, check_time)
rpki_validate_check_expiry(ctx, asn, prefix, check_time, now) ==
    IF ctx = None THEN QueryErr("ModuleNotLoaded")
    ELSE IF parse_IpNet(prefix) = None THEN QueryErr("IpNetError")
    ELSE QueryOk(validate_check_expiry(ctx[1], parse_IpNet(prefix)[1], asn, check_time, now))

\* BgpkitCommons::rpki_lookup_by_prefix(prefix)
rpki_lookup_by_prefix(ctx, prefix) ==
    IF ctx = None THEN QueryErr("ModuleNotLoaded")
    ELSE IF parse_IpNet(prefix) = None THEN QueryErr("IpNetError")
    ELSE QueryOk(lookup_by_prefix(ctx[1], parse_IpNet(prefix)[1]))

\* a call of one of the three query methods
QueryCall(method, asn, prefix) == [method |-> method, asn |-> asn, prefix |-> prefix]

QueryCalls ==
    { QueryCall("rpki_validate", 1, PrefixText("v4", 0, 1)),
      QueryCall("rpki_validate", 1, PrefixText("junk", 0, 0)),
      QueryCall("rpki_validate_check_expiry", 2, PrefixText("v4", 0, 1)),
      QueryCall("rpki_lookup_by_prefix", 1, PrefixText("v4", 0, 1)) }

\* what the call returns; rpki_validate_check_expiry is given the check time
answer_of(ctx, q, check_time) ==
    CASE q.method = "rpki_validate" -> rpki_validate(ctx, q.asn, q.prefix)
      [] q.method = "rpki_validate_check_expiry" ->
            rpki_validate_check_expiry(ctx, q.asn, q.prefix, Some(check_time), check_time)
      [] OTHER -> rpki_lookup_by_prefix(ctx, q.prefix)

\* a query method of the context, and a read of the public aspas; without a
\* trie there is nothing to read
Query(q) ==
    /\ shared_borrow_allowed
    /\ seen' = Some([trie |-> IF rpki_trie = None THEN None ELSE Some(rpki_trie[1].trie),
                     aspas |-> IF rpki_trie = None THEN None ELSE Some(rpki_trie[1].aspas),
                     call |-> q,
                     answer |-> answer_of(rpki_trie, q, MaxTime)])
    /\ UNCHANGED <<rpki_trie, call, pc, local, todo, before, result, nload,
                   error, source, origin>>
    /\ UNCHANGED outsideLoad

\* the lines an index.txt of the model may hold
IndexDates == {"2024-01-04", "2024-01-05"}

IndexLines ==
    { <<Path("2024/01/04/", "rpki-a", ".tgz"), Num(2), Num(5)>>,
      <<Path("2024/01/04/", "rpki-b", ".tgz"), Num(1), Num(5)>>,
      <<Path("2024/01/04/", "rpki-b", ".tgz"), Num(0 - 1), Num(7), NotNum>>,
      <<Path("2024/01/05/", "rpki-a", ".tgz"), Num(0), Num(5)>>,
      <<Path("2024/01/04/", "rpki-a", ".txt"), Num(0), Num(5)>>,
      <<Path("2024/01/04/", "index", ".tgz"), Num(0), Num(5)>>,
      <<Path("2024/01/04/", "rpki-a", ".tgz"), NotNum, Num(5)>>,
      <<Path("2024/01/04/", "rpki-b", ".tgz"), Num(0), Num(0 - 1)>>,
      <<Path("2024/01/04/", "rpki-a", ".tgz"), Num(0)>> }

IndexInputs ==
    { [collector |-> "KerfuffleNet", date |-> d, lines |-> ls] :
        d \in IndexDates, ls \in SeqsUpTo(IndexLines, MaxLines) }

\* list_rpkiviews_files(index.collector, index.date) returns Ok(files)
ListFiles ==
    /\ listed = None
    /\ listed' = Some([ok |-> TRUE,
                       files |-> list_rpkiviews_files(index.collector, index.date,
                                                      index.lines)])
    /\ UNCHANGED <<index, first_file>>
    /\ UNCHANGED outsideIndex

\* oneio::read_lines(&index_url)? or line? fails
ListFails ==
    /\ listed = None
    /\ listed' = Some([ok |-> FALSE, files |-> <<>>])
    /\ UNCHANGED <<index, first_file>>
    /\ UNCHANGED outsideIndex

\* from_rpkiviews: let first_file = files.first().unwrap()
PickFirst ==
    /\ listed # None
    /\ listed[1].ok
    /\ listed[1].files # <<>>
    /\ first_file = None
    /\ first_file' = first_of(listed[1].files)
    /\ UNCHANGED <<index, listed>>
    /\ UNCHANGED outsideIndex

----------------------------------------------------------------------------
(* rpkiviews: extract_file_from_tgz, a writer thread feeding gunzip and the
   calling thread reading the tar entries out of it *)

target_path == <<"output", "rpki-client.json">>
TgzUrl == "https://josephine.sobornost.net/rpkidata/2024/01/04/rpki-1.tgz"

\* an entry of the archive: its path, its size in chunks, whether it is text
Entry(path, size, utf8) == [path |-> path, size |-> size, utf8 |-> utf8]

Entries ==
    { Entry(<<"rpki-1", "output", "rpki-client.json">>, 2, TRUE),
      Entry(<<"output", "rpki-client.json">>, 1, TRUE),
      Entry(<<"rpki-1", "output", "roas.csv">>, 1, TRUE),
      Entry(<<"output", "rpki-client.json">>, 1, FALSE) }

Archives == SeqsUpTo(Entries, MaxEntries)

\* one chunk of the stream: part `part` of the `of` parts of entry number `entry`
Chunk(entry, e, part) ==
    [entry |-> entry, path |-> e.path, part |-> part, of |-> e.size, utf8 |-> e.utf8]

\* the blocks of zeros that end a tar archive
EndOfArchive == [entry |-> 0, path |-> <<>>, part |-> 0, of |-> 0, utf8 |-> TRUE]

RECURSIVE EntryChunks(_, _, _)
EntryChunks(entry, e, part) ==
    IF part > e.size THEN <<>>
    ELSE <<Chunk(entry, e, part)>> \o EntryChunks(entry, e, part + 1)

RECURSIVE ArchiveChunks(_, _)
ArchiveChunks(entries, entry) ==
    IF entry > Len(entries) THEN <<EndOfArchive>>
    ELSE EntryChunks(entry, entries[entry], 1) \o ArchiveChunks(entries, entry + 1)

\* path.ends_with(target_path) || path == target_path
path_matches(path, target) ==
    \/ /\ Len(path) >= Len(target)
       /\ SubSeq(path, Len(path) - Len(target) + 1, Len(path)) = target
    \/ path = target

\* the String read out of an entry: which entry, and the parts read
FileContent(entry, parts) == [entry |-> entry, parts |-> parts]

data_source_error(data_source, details) ==
    [kind |-> "DataSourceError", data_source |-> data_source, details |-> details]

ExtractOk(c) == [ok |-> TRUE, content |-> Some(c), error |-> None]
ExtractErr(e) == [ok |-> FALSE, content |-> None, error |-> Some(e)]

\* content.ok_or_else(|| data_source_error("RPKIviews", "{target_path} not found in archive: {url}"))
ok_or_else(c, target, url) ==
    IF c # None THEN ExtractOk(c[1])
    ELSE ExtractErr(data_source_error("RPKIviews",
                                      <<target, "not found in archive", url>>))

stop_ignored(flag) == FALSE

\* should_stop_writer.load(Relaxed)
stop_requested(flag) == flag

after_write_retry(written) == IF written THEN "check" ELSE "write"

\* if gunzip_stdin.write_all(..).is_err() { break; }
after_write(written) == IF written THEN "check" ELSE "done"

\* the writer thread's closure returns: gunzip_stdin is dropped with it
WriterEnds(res, why) ==
    /\ writer' = "done"
    /\ writer_result' = res
    /\ writer_end' = why

\* reqwest::blocking::get and the status check
Get(status) ==
    /\ writer = "get"
    /\ IF status = "success"
       THEN /\ writer' = "check"
            /\ UNCHANGED <<writer_result, writer_end>>
       ELSE WriterEnds("err", status)
    /\ UNCHANGED <<response, buffer, interrupts>>
    /\ UNCHANGED <<archive, gunzip_stdin, gunzip, gunzip_stdout, should_stop,
                   consumerVars, late_writes>>
    /\ UNCHANGED outsideTgz

\* the head of the writer's loop
CheckStop ==
    /\ writer = "check"
    /\ IF stop_requested(should_stop)
       THEN WriterEnds("ok", "stop")
       ELSE /\ writer' = "read"
            /\ UNCHANGED <<writer_result, writer_end>>
    /\ UNCHANGED <<response, buffer, interrupts>>
    /\ UNCHANGED <<archive, gunzip_stdin, gunzip, gunzip_stdout, should_stop,
                   consumerVars, late_writes>>
    /\ UNCHANGED outsideTgz

ReadOutcomes == {"data", "interrupted", "error"}

\* reader.read(&mut buffer)
Read(outcome) ==
    /\ writer = "read"
    /\ \/ /\ outcome = "data"
          /\ IF response = <<>>
             THEN /\ WriterEnds("ok", "eof")
                  /\ UNCHANGED <<response, buffer>>
             ELSE /\ buffer' = Some(Head(response))
                  /\ response' = Tail(response)
                  /\ writer' = "write"
                  /\ UNCHANGED <<writer_result, writer_end>>
          /\ UNCHANGED interrupts
       \/ /\ outcome = "interrupted"
          /\ interrupts < MaxInterrupts
          /\ interrupts' = interrupts + 1
          /\ writer' = "check"
          /\ UNCHANGED <<response, buffer, writer_result, writer_end>>
       \/ /\ outcome = "error"
          /\ WriterEnds("ok", "read_error")
          /\ UNCHANGED <<response, buffer, interrupts>>
    /\ UNCHANGED <<archive, gunzip_stdin, gunzip, gunzip_stdout, should_stop,
                   consumerVars, late_writes>>
    /\ UNCHANGED outsideTgz

\* gunzip_stdin.write_all(&buffer[..n]): blocks while the pipe is full and
\* gunzip lives, fails once gunzip is gone
WriteAll ==
    /\ writer = "write"
    /\ IF gunzip = "run"
       THEN /\ Len(gunzip_stdin) < PipeCap
            /\ gunzip_stdin' = Append(gunzip_stdin, buffer[1])
            /\ late_writes' = late_writes + (IF should_stop THEN 1 ELSE 0)
            /\ writer' = after_write(TRUE)
            /\ UNCHANGED <<writer_result, writer_end>>
       ELSE /\ writer' = after_write(FALSE)
            /\ writer_result' = IF writer' = "done" THEN "ok" ELSE writer_result
            /\ writer_end' = IF writer' = "done" THEN "write_failed" ELSE writer_end
            /\ UNCHANGED <<gunzip_stdin, late_writes>>
    /\ buffer' = IF writer' = "write" THEN buffer ELSE None
    /\ UNCHANGED <<response, interrupts>>
    /\ UNCHANGED <<archive, gunzip, gunzip_stdout, should_stop, consumerVars>>
    /\ UNCHANGED outsideTgz

\* gunzip -c turns a chunk of its input into a chunk of its output
GunzipDecode ==
    /\ gunzip = "run"
    /\ consumer # "returned"
    /\ gunzip_stdin # <<>>
    /\ Len(gunzip_stdout) < PipeCap
    /\ gunzip_stdout' = Append(gunzip_stdout, Head(gunzip_stdin))
    /\ gunzip_stdin' = Tail(gunzip_stdin)
    /\ UNCHANGED <<archive, writerVars, gunzip, should_stop, consumerVars, late_writes>>
    /\ UNCHANGED outsideTgz

\* gunzip writes into a pipe nobody reads any more
GunzipBrokenPipe ==
    /\ gunzip = "run"
    /\ consumer = "returned"
    /\ gunzip_stdin # <<>>
    /\ gunzip' = "dead"
    /\ UNCHANGED <<archive, writerVars, gunzip_stdin, gunzip_stdout, should_stop,
                   consumerVars, late_writes>>
    /\ UNCHANGED outsideTgz

\* gunzip reaches the end of its input
GunzipExit ==
    /\ gunzip = "run"
    /\ writer = "done"
    /\ gunzip_stdin = <<>>
    /\ gunzip' = "dead"
    /\ UNCHANGED <<archive, writerVars, gunzip_stdin, gunzip_stdout, should_stop,
                   consumerVars, late_writes>>
    /\ UNCHANGED outsideTgz

\* nothing is left to read from gunzip and nothing will come
StdoutEof == gunzip = "dead" /\ gunzip_stdout = <<>>

\* content = Some(file_content); should_stop.store(true); break
TargetRead(c) ==
    /\ content' = Some(c)
    /\ should_stop' = TRUE
    /\ consumer' = "after_loop"
    /\ file_content' = None
    /\ UNCHANGED extracted

\* the `?` after read_to_string: the function returns from inside the loop
ReadFails ==
    /\ extracted' = Some(ExtractErr(data_source_error("RPKIviews",
                                                      <<target_path, "Failed to read">>)))
    /\ consumer' = "returned"
    /\ file_content' = None
    /\ UNCHANGED <<content, should_stop>>

\* read_to_string has the whole entry: it is a String only if it is UTF-8
WholeEntry(ch, parts) ==
    IF ch.utf8 THEN TargetRead(FileContent(ch.entry, parts)) ELSE ReadFails

\* one turn of `for entry_result in entries_iter`, up to the path test
NextEntry ==
    /\ consumer = "next"
    /\ IF gunzip_stdout # <<>>
       THEN LET ch == Head(gunzip_stdout)
            IN  /\ gunzip_stdout' = Tail(gunzip_stdout)
                /\ IF ch = EndOfArchive
                   THEN /\ consumer' = "after_loop"
                        /\ UNCHANGED <<file_content, content, extracted, should_stop>>
                   ELSE IF ch.part = 1 /\ path_matches(ch.path, target_path)
                   THEN IF ch.of = 1
                        THEN WholeEntry(ch, <<1>>)
                        ELSE /\ consumer' = "read_to_string"
                             /\ file_content' = Some(FileContent(ch.entry, <<1>>))
                             /\ UNCHANGED <<content, extracted, should_stop>>
                   ELSE UNCHANGED <<consumerVars, should_stop>>
       ELSE /\ StdoutEof
            /\ consumer' = "after_loop"
            /\ UNCHANGED <<file_content, content, extracted, should_stop, gunzip_stdout>>
    /\ UNCHANGED <<archive, writerVars, gunzip_stdin, gunzip, late_writes>>
    /\ UNCHANGED outsideTgz

EofOutcomes == {"error", "short"}

\* entry.read_to_string(&mut file_content): the rest of the target entry. At
\* an end of stream inside the entry the tar reader either reports an error
\* or ends the read with what it has.
ReadToString(eof) ==
    /\ consumer = "read_to_string"
    /\ IF gunzip_stdout # <<>>
       THEN LET ch == Head(gunzip_stdout)
                parts == Append(file_content[1].parts, ch.part)
            IN  /\ gunzip_stdout' = Tail(gunzip_stdout)
                /\ IF ch.part = ch.of
                   THEN WholeEntry(ch, parts)
                   ELSE /\ file_content' = Some(FileContent(ch.entry, parts))
                        /\ UNCHANGED <<consumer, content, extracted, should_stop>>
       ELSE /\ StdoutEof
            /\ UNCHANGED gunzip_stdout
            /\ IF eof = "error"
               THEN ReadFails
               ELSE TargetRead(file_content[1])
    /\ UNCHANGED <<archive, writerVars, gunzip_stdin, gunzip, late_writes>>
    /\ UNCHANGED outsideTgz

\* should_stop.store(true); drop(writer_thread)
StoreStop ==
    /\ consumer = "after_loop"
    /\ should_stop' = TRUE
    /\ consumer' = "kill"
    /\ UNCHANGED <<file_content, content, extracted>>
    /\ UNCHANGED <<archive, writerVars, gunzip_stdin, gunzip, gunzip_stdout, late_writes>>
    /\ UNCHANGED outsideTgz

\* gunzip.kill(); gunzip.wait(); content.ok_or_else(..)
KillGunzip ==
    /\ consumer = "kill"
    /\ gunzip' = "dead"
    /\ extracted' = Some(ok_or_else(content, target_path, TgzUrl))
    /\ consumer' = "returned"
    /\ UNCHANGED <<file_content, content>>
    /\ UNCHANGED <<archive, writerVars, gunzip_stdin, gunzip_stdout, should_stop,
                   late_writes>>
    /\ UNCHANGED outsideTgz

\* no extraction under way
InitTgzIdle ==
    /\ archive = <<>>
    /\ response = <<>>
    /\ writer = "idle"
    /\ buffer = None
    /\ interrupts = 0
    /\ writer_result = "none"
    /\ writer_end = "none"
    /\ gunzip_stdin = <<>>
    /\ gunzip = "none"
    /\ gunzip_stdout = <<>>
    /\ should_stop = FALSE
    /\ consumer = "idle"
    /\ file_content = None
    /\ content = None
    /\ extracted = None
    /\ late_writes = 0

\* extract_file_from_tgz has spawned gunzip and the writer thread
InitTgz ==
    /\ archive \in Archives
    /\ response = ArchiveChunks(archive, 1)
    /\ writer = "get"
    /\ buffer = None
    /\ interrupts = 0
    /\ writer_result = "none"
    /\ writer_end = "none"
    /\ gunzip_stdin = <<>>
    /\ gunzip = "run"
    /\ gunzip_stdout = <<>>
    /\ should_stop = FALSE
    /\ consumer = "next"
    /\ file_content = None
    /\ content = None
    /\ extracted = None
    /\ late_writes = 0

----------------------------------------------------------------------------
InitIdx ==
    /\ index = NoIndex
    /\ listed = None
    /\ first_file = None

InitLoad ==
    /\ rpki_trie = None
    /\ call = "none"
    /\ pc = "idle"
    /\ local = None
    /\ todo = 0
    /\ before = None
    /\ result = "none"
    /\ nload = 0
    /\ error = None
    /\ source = Src("Cloudflare", None, 0)
    /\ origin = None
    /\ seen = None

InitTrie ==
    /\ rt = RpkiTrie_new(None)
    /\ nrec = 0
    /\ lastOp = "new"
    /\ lastRoa = None
    /\ lastRet = FALSE

InitJson ==
    /\ document = None
    /\ parsed = None

Init == InitTrie /\ InitLoad /\ InitIdx /\ InitTgzIdle /\ InitJson

----------------------------------------------------------------------------
(* rpki_client: deserializing a document, then merging it *)

\* serde_json values: an integer literal, a number with a fraction, a string
\* (its characters), an array
JsonInt(n) == [type |-> "int", n |-> n, s |-> <<>>, elems |-> <<>>]
JsonFloat == [type |-> "float", n |-> 0, s |-> <<>>, elems |-> <<>>]
JsonStr(s) == [type |-> "str", n |-> 0, s |-> s, elems |-> <<>>]
JsonArray(elems) == [type |-> "array", n |-> 0, s |-> <<>>, elems |-> elems]

\* the widths of u32, u64 and i64, scaled down
U32_MAX == Pow2(AsnBits) - 1
U64_MAX == Pow2(TimestampBits) - 1
I64_MAX == Pow2(TimestampBits - 1) - 1
I64_MIN == 0 - Pow2(TimestampBits - 1)

\* a ROA entry as written in the JSON document; expires is None when the
\* field is left out
JsonRoa(text, asn, expires) ==
    [prefix |-> text, maxLength |-> 2, asn |-> JsonInt(asn), ta |-> "arin",
     expires |-> expires]

\* AsnVisitor::visit_u64: u32::try_from(value)
visit_u64(value) == IF value <= U32_MAX THEN Some(value) ELSE None

\* AsnVisitor::visit_i64: u32::try_from(value)
visit_i64(value) == IF 0 <= value /\ value <= U32_MAX THEN Some(value) ELSE None

\* str::strip_prefix
strip_prefix(s, prefix) ==
    IF Len(s) >= Len(prefix) /\ SubSeq(s, 1, Len(prefix)) = prefix
    THEN Some(SubSeq(s, Len(prefix) + 1, Len(s)))
    ELSE None

Digits == <<"0", "1", "2", "3", "4", "5", "6", "7", "8", "9">>
is_digit(c) == \E d \in 1..10 : Digits[d] = c
to_digit(c) == (CHOOSE d \in 1..10 : Digits[d] = c) - 1

\* the digit loop of u32::from_str: an error at a character that is no digit
\* and when the value leaves the range
RECURSIVE parse_digits(_, _)
parse_digits(s, acc) ==
    IF s = <<>> THEN Some(acc)
    ELSE IF ~is_digit(Head(s)) THEN None
    ELSE LET v == acc * 10 + to_digit(Head(s)) IN
         IF v > U32_MAX THEN None ELSE parse_digits(Tail(s), v)

\* str::parse::<u32>().ok(): one leading "+" is allowed, a "-" is not
parse_u32(s) ==
    IF s = <<>> THEN None
    ELSE LET body == IF Head(s) = "+" THEN Tail(s) ELSE s IN
         IF body = <<>> THEN None ELSE parse_digits(body, 0)

\* strip_prefix("AS").or_else(|| strip_prefix("as")).unwrap_or(value)
num_str(value) ==
    IF strip_prefix(value, <<"A", "S">>) # None THEN strip_prefix(value, <<"A", "S">>)[1]
    ELSE IF strip_prefix(value, <<"a", "s">>) # None THEN strip_prefix(value, <<"a", "s">>)[1]
    ELSE value

\* visit_str that strips the upper-case prefix alone
visit_str_upper_only(value) ==
    parse_u32(IF strip_prefix(value, <<"A", "S">>) # None
              THEN strip_prefix(value, <<"A", "S">>)[1] ELSE value)

\* AsnVisitor::visit_str
visit_str(value) == parse_u32(num_str(value))

\* deserialize_asn: deserialize_any hands a non-negative integer to visit_u64,
\* a negative one to visit_i64, a string to visit_str; the visitor has no
\* method for anything else
deserialize_asn(value) ==
    CASE value.type = "int" -> (IF value.n >= 0 THEN visit_u64(value.n) ELSE visit_i64(value.n))
      [] value.type = "str" -> visit_str(value.s)
      [] OTHER -> None

\* one element of the providers array
provider_asn(elem) ==
    CASE elem.type = "int" ->
            (IF elem.n >= 0 /\ elem.n <= U32_MAX THEN Some(elem.n) ELSE None)
      [] elem.type = "str" -> parse_u32(num_str(elem.s))
      [] OTHER -> None

RECURSIVE providers_loop(_, _)
providers_loop(elems, providers) ==
    IF elems = <<>> THEN Some(providers)
    ELSE LET asn == provider_asn(Head(elems)) IN
         IF asn = None THEN None
         ELSE providers_loop(Tail(elems), Append(providers, asn[1]))

\* deserialize_providers: deserialize_seq, then ProvidersVisitor::visit_seq
deserialize_providers(value) ==
    IF value.type # "array" THEN None ELSE providers_loop(value.elems, <<>>)

\* Deserialize for i64, behind #[serde(default)]: 0 when the field is left
\* out, any integer of the i64 range otherwise
aspa_expires_field(field) ==
    IF field = None THEN Some(0)
    ELSE IF I64_MIN <= field[1] /\ field[1] <= I64_MAX THEN Some(field[1])
    ELSE None

\* deserialize_expires on a number: a negative timestamp is an error
deserialize_expires(value) == IF value >= 0 THEN Some(value) ELSE None

\* #[serde(default, deserialize_with = "deserialize_expires")] pub expires: u64
expires_field(field) ==
    IF field = None THEN Some(0) ELSE deserialize_expires(field[1])

\* Deserialize for RpkiClientRoaEntry: None when the entry is rejected
deserialize_roa(json) ==
    LET asn == deserialize_asn(json.asn)
        expires == expires_field(json.expires)
    IN
    IF asn = None \/ expires = None THEN None
    ELSE Some([prefix |-> json.prefix, max_length |-> json.maxLength, asn |-> asn[1],
               ta |-> json.ta, expires |-> expires[1]])

\* the roas array of a document: None as soon as one entry is rejected
RECURSIVE deserialize_roas(_)
deserialize_roas(jsons) ==
    IF jsons = <<>> THEN Some(<<>>)
    ELSE LET head == deserialize_roa(Head(jsons))
             rest == deserialize_roas(Tail(jsons))
         IN IF head = None \/ rest = None THEN None
            ELSE Some(<<head[1]>> \o rest[1])

\* an ASPA entry as written in the JSON document
JsonAspa(customer, expires, providers) ==
    [customer_asid |-> customer, expires |-> expires, providers |-> providers]

\* Deserialize for RpkiClientAspaEntry: None when the entry is rejected
deserialize_aspa(json) ==
    LET customer_asid == deserialize_asn(json.customer_asid)
        expires == aspa_expires_field(json.expires)
        providers == deserialize_providers(json.providers)
    IN
    IF customer_asid = None \/ expires = None \/ providers = None THEN None
    ELSE Some([customer_asid |-> customer_asid[1], expires |-> expires[1],
               providers |-> providers[1]])

RECURSIVE deserialize_aspas(_)
deserialize_aspas(jsons) ==
    IF jsons = <<>> THEN Some(<<>>)
    ELSE LET head == deserialize_aspa(Head(jsons))
             rest == deserialize_aspas(Tail(jsons))
         IN IF head = None \/ rest = None THEN None
            ELSE Some(<<head[1]>> \o rest[1])

\* a JSON document: its roas array and its aspas array
JsonDocument(roas, aspas) == [roas |-> roas, aspas |-> aspas]

\* serde_json::from_str::<RpkiClientData>(json).ok()
from_str(doc) ==
    LET roas == deserialize_roas(doc.roas)
        aspas == deserialize_aspas(doc.aspas)
    IN IF roas = None \/ aspas = None THEN None ELSE Some(ClientData(roas[1], aspas[1]))

\* RpkiClientData::from_json on a document with the given roas array
from_json(jsons) ==
    LET roas == deserialize_roas(jsons) IN
    IF roas = None THEN None ELSE Some(ClientData(roas[1], <<>>))

JsonRoas ==
    { JsonRoa(PrefixText("v4", 0, l), a, e) :
        l \in {0, 1, 2}, a \in Asns, e \in {None, Some(1), Some(2), Some(0 - 1)} }

\* from_json(document) then merge_rpki_client_data, as from_rpkiviews_files does
MergeJson(jsons) ==
    /\ Len(jsons) >= 1
    /\ nrec + Len(jsons) <= MaxRecords
    /\ from_json(jsons) # None
    /\ rt' = merge_rpki_client_data(rt, from_json(jsons)[1])
    /\ lastOp' = "merge_json"
    /\ lastRoa' = None
    /\ lastRet' = FALSE
    /\ nrec' = nrec + Len(jsons)
    /\ UNCHANGED outsideTrie

\* from_json(document)? returns the JSON error: nothing is merged
JsonRejected(jsons) ==
    /\ Len(jsons) >= 1
    /\ nrec + Len(jsons) <= MaxRecords
    /\ from_json(jsons) = None
    /\ lastOp' = "json_error"
    /\ lastRoa' = None
    /\ lastRet' = FALSE
    /\ nrec' = nrec + Len(jsons)
    /\ UNCHANGED rt
    /\ UNCHANGED outsideTrie

NextJson ==
    \/ \E jsons \in SeqsUpTo(JsonRoas, 2) : MergeJson(jsons)
    \/ \E jsons \in SeqsUpTo(JsonRoas, 2) : JsonRejected(jsons)

SpecJson == Init /\ [][NextJson]_vars

\* the decimal text of n
RECURSIVE Decimal(_)
Decimal(n) ==
    IF n < 10 THEN <<Digits[n + 1]>>
    ELSE Decimal(n \div 10) \o <<Digits[(n % 10) + 1]>>

AS(n) == JsonStr(<<"A", "S">> \o Decimal(n))
as(n) == JsonStr(<<"a", "s">> \o Decimal(n))

\* the values an AS-number field takes in the documents: the three encodings
\* of every number up to one past the u32 range, and values of other shapes
AsnValues ==
    UNION { {JsonInt(n), AS(n), as(n)} : n \in 0..(U32_MAX + 1) }
    \cup { JsonInt(0 - 1), JsonFloat, JsonArray(<<>>),
           JsonStr(<<>>), JsonStr(<<"1">>), JsonStr(<<"+", "1">>),
           JsonStr(<<"A", "S", "+", "1">>), JsonStr(<<"A", "S", "-", "1">>),
           JsonStr(<<"A", "S">>), JsonStr(<<"A", "s", "1">>),
           JsonStr(<<"A", "S", "A", "S", "1">>), JsonStr(<<"A", "S", "0", "1">>),
           JsonStr(<<"A", "S", "1", "x">>) }

ProviderElems ==
    { JsonInt(1), AS(1), as(2), JsonInt(U32_MAX + 1), JsonInt(0 - 1), JsonFloat,
      JsonStr(<<"2">>), JsonStr(<<"a", "s", "+", "2">>) }

ProvidersValues ==
    { JsonArray(elems) : elems \in SeqsUpTo(ProviderElems, 2) } \cup { JsonInt(1) }

\* expires of a ROA entry: left out, negative, positive
RoaExpires == { None, Some(0 - 1), Some(1) }

\* expires of an ASPA entry: left out, negative, positive, above the i64 range
AspaExpires == { None, Some(0 - 1), Some(1), Some(I64_MAX + 1) }

RoaFields(asn, expires) ==
    [prefix |-> PrefixText("v4", 0, 1), maxLength |-> 2, asn |-> asn, ta |-> "arin",
     expires |-> expires]

\* documents of one entry: a ROA, or an ASPA
JsonDocuments ==
    { JsonDocument(<<RoaFields(asn, e)>>, <<>>) : asn \in AsnValues, e \in RoaExpires }
    \cup { JsonDocument(<<>>, <<JsonAspa(c, e, JsonArray(<<JsonInt(1)>>))>>) :
              c \in AsnValues, e \in AspaExpires }
    \cup { JsonDocument(<<>>, <<JsonAspa(JsonInt(1), e, ps)>>) :
              e \in AspaExpires, ps \in ProvidersValues }

\* RpkiClientData::from_json(json)? then merge_rpki_client_data
FromJsonOk(doc) ==
    /\ document = None
    /\ from_str(doc) # None
    /\ document' = Some(doc)
    /\ parsed' = from_str(doc)
    /\ rt' = merge_rpki_client_data(rt, from_str(doc)[1])
    /\ lastOp' = "merge_json"
    /\ nrec' = nrec + 1
    /\ UNCHANGED <<lastRoa, lastRet>>
    /\ UNCHANGED outsideJson

\* RpkiClientData::from_json(json)? returns the JSON error
FromJsonErr(doc) ==
    /\ document = None
    /\ from_str(doc) = None
    /\ document' = Some(doc)
    /\ parsed' = None
    /\ lastOp' = "json_error"
    /\ UNCHANGED <<rt, nrec, lastRoa, lastRet>>
    /\ UNCHANGED outsideJson

NextAdapter ==
    \/ \E doc \in JsonDocuments : FromJsonOk(doc)
    \/ \E doc \in JsonDocuments : FromJsonErr(doc)

SpecAdapter == Init /\ [][NextAdapter]_vars

NextTrie ==
    \/ \E roa \in RoaInputs : InsertRoa(roa)
    \/ \E roas \in SeqsUpTo(RoaInputs, 2) : InsertRoas(roas)
    \/ \E roas \in SeqsUpTo(RoaEntries, 2), aspas \in SeqsUpTo(AspaEntries, 2) :
          Merge(ClientData(roas, aspas))

SpecTrie == Init /\ [][NextTrie]_vars

\* records that differ in key, ASN, issuer and validity window, all with
\* max_length 1: two of them agree in (prefix, asn, max_length) and differ in
\* the rest
RecordMetas ==
    { [rir |-> None,            not_before |-> None,    not_after |-> None],
      [rir |-> Some("RIPENCC"), not_before |-> Some(1), not_after |-> Some(1)] }

RecordInputs ==
    { Roa(p, a, 1, x.rir, x.not_before, x.not_after) :
        p \in KeyPrefixes, a \in Asns, x \in RecordMetas }

\* insert_roa, insert_roas and merge_rpki_client_data on these records
NextRecords ==
    \/ \E roa \in RecordInputs : InsertRoa(roa)
    \/ \E roas \in SeqsUpTo(RecordInputs, 2) : InsertRoas(roas)
    \/ \E roas \in SeqsUpTo(RoaEntries, 1), aspas \in SeqsUpTo(AspaEntries, 1) :
          Merge(ClientData(roas, aspas))

SpecRecords == Init /\ [][NextRecords]_vars

NextLoad ==
    \/ \E d \in {None} \cup {Some(x) : x \in Dates} : LoadRpki(d)
    \/ \E d \in Dates, src \in Sources : LoadRpkiHistorical(d, src)
    \/ \E n \in 0..MaxUrls, src \in Sources, d \in {None} \cup {Some(x) : x \in Dates} :
          LoadRpkiFromFiles(n, src, d)
    \/ Reload
    \/ \E data \in LoadDocs : FetchDocument(data)
    \/ \E failure \in Failures : FetchFails(failure)
    \/ LoopEnds
    \/ \E data \in LoadDocs : CloudflareFetch(data)
    \/ \E lines \in LoadIndexes : RpkiViewsIndex("SoborostNet", lines)
    \/ \E data \in LoadDocs : RpkiViewsFile(data)
    \/ ReloadSwapAspas
    \/ \E q \in QueryCalls : Query(q)

SpecLoad == Init /\ [][NextLoad]_vars

\* list_rpkiviews_files applied to every index of IndexInputs
InitIndex ==
    /\ InitTrie /\ InitLoad /\ InitTgzIdle /\ InitJson
    /\ index \in IndexInputs
    /\ listed = None
    /\ first_file = None

NextIndex ==
    \/ ListFiles
    \/ ListFails
    \/ PickFirst

SpecIndex == InitIndex /\ [][NextIndex]_vars

\* extract_file_from_tgz run on every archive of Archives
InitExtract == InitTrie /\ InitLoad /\ InitIdx /\ InitTgz /\ InitJson

WriterStep ==
    \/ \E status \in {"success", "connect_error", "http_error"} : Get(status)
    \/ CheckStop
    \/ \E outcome \in ReadOutcomes : Read(outcome)
    \/ WriteAll

GunzipStep ==
    \/ GunzipDecode
    \/ GunzipBrokenPipe
    \/ GunzipExit

ConsumerStep ==
    \/ NextEntry
    \/ \E eof \in EofOutcomes : ReadToString(eof)
    \/ StoreStop
    \/ KillGunzip

NextTgz ==
    \/ WriterStep
    \/ GunzipStep
    \/ ConsumerStep

SpecTgz == InitExtract /\ [][NextTgz]_vars

\* the two threads and the gunzip process are each scheduled by the operating
\* system: none is held back for ever while it has a step to take
SpecTgzFair ==
    /\ InitExtract
    /\ [][NextTgz]_vars
    /\ WF_vars(WriterStep)
    /\ WF_vars(GunzipStep)
    /\ WF_vars(ConsumerStep)

----------------------------------------------------------------------------
(* Vocabulary of the properties *)

Range(f) == { f[x] : x \in DOMAIN f }

\* every record held by the trie, whatever key it is stored under
Stored(t) == UNION { Range(t.trie[k]) : k \in DOMAIN t.trie }

StoredCount(t) ==
    LET RECURSIVE Sum(_)
        Sum(K) == IF K = {} THEN 0
                  ELSE LET k == CHOOSE x \in K : TRUE
                       IN Len(t.trie[k]) + Sum(K \ {k})
    IN Sum(DOMAIN t.trie)

\* p is less specific than or equal to q: same family, and the first p.len
\* bits of the two addresses agree
Covers(p, q) ==
    /\ p.fam = q.fam
    /\ p.len <= q.len
    /\ p.addr \div Pow2(max_prefix_len(p.fam) - p.len)
         = q.addr \div Pow2(max_prefix_len(q.fam) - p.len)

\* the records the lookup contract asks for
Expected(t, q) ==
    { r \in Stored(t) : Covers(r.prefix, q) /\ r.max_length >= q.len }

TimeValid(r, at) ==
    /\ r.not_before = None \/ at >= r.not_before[1]
    /\ r.not_after = None \/ at <= r.not_after[1]

SameTriple(a, b) ==
    a.prefix = b.prefix /\ a.asn = b.asn /\ a.max_length = b.max_length

\* C1: lookup_by_prefix(q) returns exactly the stored records of q's family
\* whose prefix covers q and whose max_length is at least q's length, each
\* once; an IPv6-keyed record is never returned for an IPv4 query.
C1_LookupCovering ==
    \A q \in Prefixes :
        LET ms == lookup_by_prefix(rt, q) IN
        /\ Range(ms) = Expected(rt, q)
        /\ Len(ms) = Cardinality(Expected(rt, q))
        /\ \A i \in 1..Len(ms) : ms[i].prefix.fam = q.fam

\* a record for the /0 with max_length 1 is stored, is returned for a /1 and
\* is not returned for a /2 under it, while an IPv6 record is stored too
C1_Witness ==
    \E r \in Stored(rt) :
        /\ r.prefix = Net("v4", 0, 0) /\ r.max_length = 1
        /\ r \in Range(lookup_by_prefix(rt, Net("v4", 0, 1)))
        /\ r \notin Range(lookup_by_prefix(rt, Net("v4", 0, 2)))
        /\ \E s \in Stored(rt) : s.prefix.fam = "v6"

\* C2: validate is Unknown iff the lookup is empty, else Valid iff a returned
\* record has the query ASN, else Invalid; a record whose max_length is below
\* the query length never makes the query Valid.
C2_ValidateOutcome ==
    \A q \in Prefixes :
        LET ms == lookup_by_prefix(rt, q) IN
        \A asn \in QueryAsns :
            LET v == validate(rt, q, asn) IN
            /\ (v = "Unknown") <=> (ms = <<>>)
            /\ (v = "Valid") <=> (\E i \in 1..Len(ms) : ms[i].asn = asn)
            /\ (v = "Invalid") <=> (ms # <<>> /\ \A i \in 1..Len(ms) : ms[i].asn # asn)
            /\ (v = "Valid") =>
                  \E r \in Stored(rt) :
                      r.asn = asn /\ Covers(r.prefix, q) /\ r.max_length >= q.len

\* two records for the same exact prefix with ASNs 1 and 2: Valid for either,
\* Invalid for ASN 3
C2_Witness ==
    /\ \E a, b \in Stored(rt) :
          a.prefix = Net("v4", 0, 1) /\ b.prefix = a.prefix /\ a.asn = 1 /\ b.asn = 2
    /\ validate(rt, Net("v4", 0, 1), 1) = "Valid"
    /\ validate(rt, Net("v4", 0, 1), 2) = "Valid"
    /\ validate(rt, Net("v4", 0, 1), 3) = "Invalid"

\* C3: with a non-empty lookup and no time-valid record for the query ASN,
\* validate_check_expiry is Unknown when some returned record has the query
\* ASN and Invalid when none has, whatever the other ASNs' windows are.
C3_ExpiredIsUnknown ==
    \A q \in Prefixes :
        LET ms == lookup_by_prefix(rt, q) IN
        \A asn \in QueryAsns, at \in Times :
            (/\ ms # <<>>
             /\ ~ \E i \in 1..Len(ms) : ms[i].asn = asn /\ TimeValid(ms[i], at))
            => validate_check_expiry(rt, q, asn, Some(at), 0)
                 = (IF \E i \in 1..Len(ms) : ms[i].asn = asn
                    THEN "Unknown" ELSE "Invalid")

\* an expired record for ASN 1 next to an unbounded record for ASN 2: at
\* time 2 the query for ASN 1 is Unknown, the query for ASN 3 Invalid
C3_Witness ==
    /\ \E a, b \in Stored(rt) :
          /\ a.prefix = Net("v4", 0, 1) /\ a.asn = 1 /\ a.not_after = Some(1)
          /\ b.prefix = a.prefix /\ b.asn = 2 /\ b.not_after = None
    /\ validate_check_expiry(rt, Net("v4", 0, 1), 1, Some(2), 0) = "Unknown"
    /\ validate_check_expiry(rt, Net("v4", 0, 1), 3, Some(2), 0) = "Invalid"

\* C4: validate_check_expiry is Valid iff some returned record has the query
\* ASN and is time-valid at the check time, both bounds inclusive, wherever
\* that record stands among the returned records.
C4_ValidIffTimeValid ==
    \A q \in Prefixes :
        LET ms == lookup_by_prefix(rt, q) IN
        \A asn \in QueryAsns, at \in Times :
            (validate_check_expiry(rt, q, asn, Some(at), 0) = "Valid")
               <=> (\E i \in 1..Len(ms) : ms[i].asn = asn /\ TimeValid(ms[i], at))

\* the first returned record for ASN 1 is expired at time 2 and a later one
\* is unbounded: the outcome is Valid; a record bounded to [1, 1] is Valid
\* at time 1
C4_Witness ==
    LET ms == lookup_by_prefix(rt, Net("v4", 0, 2)) IN
    /\ Len(ms) = 2
    /\ ms[1].asn = 1 /\ ms[1].not_after = Some(1) /\ ms[1].not_before = Some(1)
    /\ ms[2].asn = 1 /\ ms[2].not_after = None /\ ms[2].not_before = None
    /\ validate_check_expiry(rt, Net("v4", 0, 2), 1, Some(2), 0) = "Valid"
    /\ validate_check_expiry(rt, Net("v4", 0, 2), 1, Some(0), 0) = "Valid"

\* C5: insert_roa returns true exactly when the trie held no entry for the
\* record's prefix before the call; a record whose (prefix, asn, max_length)
\* is already stored returns false and leaves the trie unchanged; the first
\* insert into an empty trie returns true and stores one record.
C5_InsertReturn ==
    [][lastOp' = "insert_roa" =>
         LET r == lastRoa'[1] IN
         /\ lastRet' = (r.prefix \notin DOMAIN rt.trie)
         /\ (\E e \in Stored(rt) : SameTriple(e, r)) => (~lastRet' /\ rt' = rt)
         /\ (rt.trie = EmptyTrie) => (lastRet' /\ StoredCount(rt') = 1)]_vars

\* the second of two inserts had the triple of the first: it returned false
\* and one record is stored
C5_Witness ==
    /\ lastOp = "insert_roa" /\ nrec = 2 /\ ~lastRet
    /\ StoredCount(rt) = 1
    /\ \E e \in Stored(rt) : SameTriple(e, lastRoa[1])

WellFormed(t) ==
    \A k \in DOMAIN t.trie :
        /\ t.trie[k] # <<>>
        /\ \A i \in 1..Len(t.trie[k]) : t.trie[k][i].prefix = k
        /\ \A i, j \in 1..Len(t.trie[k]) :
              (t.trie[k][i].asn = t.trie[k][j].asn
                 /\ t.trie[k][i].max_length = t.trie[k][j].max_length) => i = j

\* C6: every key maps to a non-empty list, every record stored under key p
\* has prefix p, no key holds two records with the same (asn, max_length);
\* insert_roa discards its record iff a stored record has the same prefix,
\* asn and max_length, and stores it otherwise.
C6_NoDuplicateTriple ==
    /\ [] WellFormed(rt)
    /\ [][lastOp' = "insert_roa" =>
            LET r == lastRoa'[1]
                dup == \E e \in Stored(rt) : SameTriple(e, r)
            IN /\ dup <=> (StoredCount(rt') = StoredCount(rt))
               /\ ~dup => (r \in Stored(rt') /\ StoredCount(rt') = StoredCount(rt) + 1)
               /\ Stored(rt) \subseteq Stored(rt')]_vars

\* two records under one key that differ in max_length alone, after a merge
\* and an insert_roa
C6_Witness ==
    /\ nrec = 2
    /\ \E k \in DOMAIN rt.trie :
          /\ Len(rt.trie[k]) = 2
          /\ rt.trie[k][1].asn = rt.trie[k][2].asn
          /\ rt.trie[k][1].max_length # rt.trie[k][2].max_length

\* C7 as stated: a record inserted after a stored record with the same
\* prefix, asn and max_length and another issuer or validity window is
\* retained beside it, and being unbounded makes the query Valid at any time.
C7_BothRetained ==
    (lastOp = "insert_roa" /\ \E e \in Stored(rt) : SameTriple(e, lastRoa[1]))
    => /\ lastRoa[1] \in Stored(rt)
       /\ (lastRoa[1].not_before = None /\ lastRoa[1].not_after = None) =>
             \A at \in Times :
                 validate_check_expiry(rt, lastRoa[1].prefix, lastRoa[1].asn,
                                       Some(at), 0) = "Valid"

\* C7 amended: a record whose prefix, asn and max_length equal those of a
\* stored record is discarded by insert_roa even when its issuer or validity
\* window differs: the stored records are unchanged, the new record is not
\* among them, and no validate_check_expiry outcome for its prefix and ASN
\* changes.
C7_SecondDiscarded ==
    [][(lastOp' = "insert_roa"
          /\ \E e \in Stored(rt) : SameTriple(e, lastRoa'[1]) /\ e # lastRoa'[1])
       => /\ Stored(rt') = Stored(rt)
          /\ lastRoa'[1] \notin Stored(rt')
          /\ \A at \in Times :
                validate_check_expiry(rt', lastRoa'[1].prefix, lastRoa'[1].asn, Some(at), 0)
                  = validate_check_expiry(rt, lastRoa'[1].prefix, lastRoa'[1].asn, Some(at), 0)
      ]_vars

\* a record valid at time 1 only was inserted, then the same triple without
\* bounds: the second is not stored and at time 2 the outcome is Unknown
C7_Witness ==
    /\ lastOp = "insert_roa" /\ nrec = 2
    /\ lastRoa[1].not_before = None /\ lastRoa[1].not_after = None
    /\ lastRoa[1] \notin Stored(rt)
    /\ \E e \in Stored(rt) : SameTriple(e, lastRoa[1]) /\ e.not_after = Some(1)
    /\ Len(lookup_by_prefix(rt, lastRoa[1].prefix)) = 1
    /\ validate_check_expiry(rt, lastRoa[1].prefix, lastRoa[1].asn, Some(2), 0) = "Unknown"

\* C8 as stated: validate is Unknown only when no stored record's prefix
\* covers the query, and Invalid whenever some stored prefix covers the query
\* and no stored record authorizes the ASN for it.
C8_UnknownOnlyWithoutCover ==
    \A q \in Prefixes :
        LET covering == { r \in Stored(rt) : Covers(r.prefix, q) } IN
        \A asn \in QueryAsns :
            /\ (validate(rt, q, asn) = "Unknown") => (covering = {})
            /\ (covering # {}
                  /\ ~ \E r \in covering : r.asn = asn /\ r.max_length >= q.len)
               => validate(rt, q, asn) = "Invalid"

UniqueCustomers(aspas) ==
    \A i, j \in 1..Len(aspas) : aspas[i].customer_asn = aspas[j].customer_asn => i = j

\* C9 as stated: on every load path the ASPA list of a trie, under
\* construction or adopted by the context, holds at most one record per
\* customer_asn, and merging a document keeps every record already held.
C9_OneAspaPerCustomer ==
    /\ [] (/\ rpki_trie # None => UniqueCustomers(rpki_trie[1].aspas)
           /\ (pc # "idle" /\ local # None) => UniqueCustomers(local[1].aspas))
    /\ [][(pc \in {"ripe", "ripe_files", "rpkiviews_files"} /\ todo' = todo - 1)
            => SubSeq(local'[1].aspas, 1, Len(local[1].aspas)) = local[1].aspas]_vars

\* C10: while a load or reload is in progress, and after it returned an
\* error, the trie held by the context is the one held when it was called,
\* or still absent.
C10_FailedLoadLeavesTrie ==
    /\ pc \in FetchingPcs => rpki_trie = before
    /\ result = "err" => rpki_trie = before

\* the second load or a reload of a loaded context failed at the third of the
\* five registry documents, with records of the first two merged
C10_Witness ==
    /\ result = "err" /\ pc = "idle" /\ nload = 2
    /\ rpki_trie # None
    /\ todo = NumRirs - 2
    /\ local[1].trie # EmptyTrie
    /\ local[1].trie # rpki_trie[1].trie

\* the ROAs and ASPAs of an Option<RpkiTrie>
Data(opt) == IF opt = None THEN None
             ELSE Some([trie |-> opt[1].trie, aspas |-> opt[1].aspas])

\* C11: a query is answered from the complete data the context held when the
\* last call began, or from the complete trie that call built and returned
\* with success; it never reads a trie a loader is still filling, nor the new
\* ROAs together with the old ASPAs.
C11_QuerySeesCompleteData ==
    /\ (seen # None /\ seen[1].trie # None) =>
         LET d == Some([trie |-> seen[1].trie[1], aspas |-> seen[1].aspas[1]]) IN
         \/ before # None /\ d = Data(before)
         \/ result = "ok" /\ d = Data(local)
    /\ (result = "ok" /\ source.kind \in {"Ripe", "RipeFiles", "RpkiViewsFiles"})
         => todo = 0

\* a query after a successful reload that replaced both the ROAs and the ASPAs
C11_Witness ==
    /\ seen # None /\ result = "ok" /\ before # None
    /\ origin # Some(source)
    /\ before[1].trie # local[1].trie
    /\ before[1].aspas # local[1].aspas
    /\ seen[1].trie # None
    /\ Some([trie |-> seen[1].trie[1], aspas |-> seen[1].aspas[1]]) = Data(local)

\* C12 as stated: a reload fetches from the source the context's trie was
\* loaded from.
C12_ReloadFromOrigin ==
    call = "reload" => origin = Some(source)

\* a path lies under the date directory, ends in .tgz and holds the marker
PathMatches(path, date) ==
    /\ path.dir = date_prefix(date)
    /\ path.ext = ".tgz"
    /\ path.stem \in {"rpki-a", "rpki-b"}

\* a line has the three fields, a signed timestamp and an unsigned size
LineWellFormed(parts) ==
    /\ Len(parts) >= 3
    /\ parts[2].num
    /\ parts[3].num /\ parts[3].val >= 0

Ascending(files) ==
    \A j, k \in 1..Len(files) : j < k => files[j].timestamp <= files[k].timestamp

C15_NetworkFailureIsDataSourceError ==
    (result = "err" /\ error # None /\ error[1].cause \in {"connect", "transfer"})
       => (error[1].kind = "DataSourceError" /\ error[1].data_source # "")

\* C17: when the index lists no archive for the date, the load from the
\* collector returns a DataSourceError for RPKIviews and the context keeps the
\* trie it had; a load from a collector that succeeded had a file to load.
C17_NoFilesIsError ==
    /\ (listed # None /\ listed[1].files = <<>>) =>
          /\ result = "err"
          /\ error = Some(Error("DataSourceError", "RPKIviews", "no files"))
          /\ rpki_trie = before
    /\ (source.kind = "RpkiViews" /\ result = "ok") =>
          (listed # None /\ listed[1].files # <<>> /\ first_file = Some(listed[1].files[1]))

\* a loaded context asks a collector whose index has a line, for another date
C17_Witness ==
    /\ listed # None /\ listed[1].files = <<>>
    /\ index.lines # <<>>
    /\ source.kind = "RpkiViews"
    /\ result = "err"
    /\ rpki_trie # None

\* a document holds a ROA entry whose prefix text is not an IP network
HasUnparseablePrefix(data) ==
    \E i \in 1..Len(data.roas) : parse_IpNet(data.roas[i].prefix) = None

\* C19 as stated: a step of a load that takes in a fetched document with an
\* unparseable prefix ends the load with an error.
C19_BadPrefixFailsLoad ==
    [][\A data \in LoadDocs :
          (/\ HasUnparseablePrefix(data)
           /\ (FetchDocument(data) \/ RpkiViewsFile(data) \/ CloudflareFetch(data)))
          => (pc' = "idle" /\ result' = "err")]_vars

\* C20 as stated: a ROA entry without the expires field that a merge stores
\* is stored without a not_after bound, and validate_check_expiry for its
\* prefix and ASN is Valid at every check time.
C20_MissingExpiryIsUnbounded ==
    [][\A jsons \in SeqsUpTo(JsonRoas, 2) :
          MergeJson(jsons) =>
             \A i \in 1..Len(jsons) :
                LET e == jsons[i]
                    prefix == parse_IpNet(e.prefix)[1]
                    older == \/ \E r \in Stored(rt) :
                                  r.prefix = prefix /\ r.asn = e.asn.n
                                  /\ r.max_length = e.maxLength
                             \/ \E j \in 1..(i - 1) :
                                  jsons[j].prefix = e.prefix /\ jsons[j].asn = e.asn
                IN (e.expires = None /\ ~older) =>
                     /\ \E r \in Stored(rt') :
                           /\ r.prefix = prefix /\ r.asn = e.asn.n
                           /\ r.not_after = None
                     /\ \A t \in Times :
                           validate_check_expiry(rt', prefix, e.asn.n, Some(t), t) = "Valid"
      ]_vars

StoppedReading == consumer \in {"after_loop", "kill", "returned"}

\* C13: the stop signal is raised by the consumer alone, and only once it has
\* left its loop, which it does with the signal raised whenever it has read
\* the target; the writer thread writes at most one chunk after the signal is
\* raised; a writer thread that ends on the signal ends with Ok, and what the
\* extraction returns is decided by the content alone.
C13_StopState ==
    /\ should_stop => StoppedReading
    /\ content # None => should_stop
    /\ late_writes <= 1
    /\ writer_end = "stop" => writer_result = "ok"
    /\ (consumer = "returned" /\ should_stop)
          => extracted = Some(ok_or_else(content, target_path, TgzUrl))

C13_StopStep ==
    should_stop' # should_stop
        => should_stop' /\ consumer' # consumer /\ UNCHANGED writerVars

C13_StopSignal == []C13_StopState /\ [][C13_StopStep]_vars

C13_Witness ==
    /\ late_writes = 1
    /\ writer_end = "stop"
    /\ consumer = "returned"
    /\ extracted # None /\ extracted[1].ok

\* C14: once the consumer has stopped reading, the writer thread comes to its
\* end; a writer thread whose write failed ends with Ok.
C14_ProducerTerminates ==
    /\ StoppedReading ~> (writer = "done")
    /\ [](writer_end = "write_failed" => writer_result = "ok")

C14_Witness ==
    /\ consumer = "returned"
    /\ writer = "done"
    /\ writer_end = "write_failed"

Matching(entries) == { i \in 1..Len(entries) : path_matches(entries[i].path, target_path) }

FirstMatching(entries) == CHOOSE i \in Matching(entries) : \A j \in Matching(entries) : i <= j

WholeContent(entries, i) == FileContent(i, [k \in 1..entries[i].size |-> k])

NotFound ==
    ExtractErr(data_source_error("RPKIviews", <<target_path, "not found in archive", TgzUrl>>))

TransferFailed == writer_end \in {"connect_error", "http_error", "read_error"}

\* C16: an extraction that has returned gives the whole content of the first
\* matching entry whenever it gives a content; with no matching entry in the
\* archive it gives the error naming the member and the URL; with a matching
\* text entry and a transfer that did not fail it gives a content.
C16_ExtractsWholeMember ==
    consumer = "returned" =>
        /\ extracted[1].ok =>
              /\ Matching(archive) # {}
              /\ extracted[1].content = Some(WholeContent(archive, FirstMatching(archive)))
        /\ (Matching(archive) = {} /\ ~TransferFailed) => extracted[1] = NotFound
        /\ ( /\ Matching(archive) # {}
             /\ archive[FirstMatching(archive)].utf8
             /\ ~TransferFailed ) => extracted[1].ok

\* the parts of C16 that do not speak of truncated content
C16_FoundOrNamed ==
    consumer = "returned" =>
        /\ extracted[1].ok =>
              /\ Matching(archive) # {}
              /\ extracted[1].content[1].entry = FirstMatching(archive)
        /\ (Matching(archive) = {} /\ ~TransferFailed) => extracted[1] = NotFound
        /\ ( /\ Matching(archive) # {}
             /\ archive[FirstMatching(archive)].utf8
             /\ ~TransferFailed ) => extracted[1].ok

\* an extraction returned Ok with less than the entry holds
C16_Truncated ==
    /\ consumer = "returned"
    /\ extracted[1].ok
    /\ extracted[1].content # Some(WholeContent(archive, extracted[1].content[1].entry))

\* the AS-number fields of a document, in order
RECURSIVE AsnFieldsOfAspas(_)
AsnFieldsOfAspas(aspas) ==
    IF aspas = <<>> THEN <<>>
    ELSE <<Head(aspas).customer_asid>>
         \o (IF Head(aspas).providers.type = "array" THEN Head(aspas).providers.elems ELSE <<>>)
         \o AsnFieldsOfAspas(Tail(aspas))

AsnFields(doc) ==
    [i \in 1..Len(doc.roas) |-> doc.roas[i].asn] \o AsnFieldsOfAspas(doc.aspas)

\* "AS<n>" or "as<n>" for a number n of the u32 range
IsAsText(v, n) == v = AS(n) \/ v = as(n)

\* the integer encoding of an AS-number value written as "AS<n>" or "as<n>"
Numeric(v) ==
    IF \E n \in 0..U32_MAX : IsAsText(v, n)
    THEN JsonInt(CHOOSE n \in 0..U32_MAX : IsAsText(v, n))
    ELSE v

NumericProviders(v) ==
    IF v.type = "array"
    THEN JsonArray([i \in 1..Len(v.elems) |-> Numeric(v.elems[i])])
    ELSE v

\* the document with every AS number written as a bare integer
NumericDocument(doc) ==
    JsonDocument(
        [i \in 1..Len(doc.roas) |-> [doc.roas[i] EXCEPT !.asn = Numeric(@)]],
        [i \in 1..Len(doc.aspas) |->
            [doc.aspas[i] EXCEPT !.customer_asid = Numeric(@),
                                 !.providers = NumericProviders(@)]])

\* C21: a document parses to what the same document with its "AS<n>" and
\* "as<n>" fields written as the integer n parses to, and the trie built
\* from it holds the same records.
C21_AsnEncodingsAgree ==
    document # None =>
        /\ parsed = from_str(NumericDocument(document[1]))
        /\ parsed # None =>
              rt = merge_rpki_client_data(RpkiTrie_new(None),
                                          from_str(NumericDocument(document[1]))[1])

C21_Witness ==
    /\ document # None
    /\ parsed # None
    /\ \E i \in 1..Len(AsnFields(document[1])) : AsnFields(document[1])[i] = as(2)
    /\ rt.aspas # <<>>

\* the two accepted forms: an integer of the u32 range, or "AS"/"as" followed
\* by digits whose value is in the u32 range
RECURSIVE AllDigits(_)
AllDigits(s) == s = <<>> \/ (is_digit(Head(s)) /\ AllDigits(Tail(s)))

RECURSIVE Value(_, _)
Value(s, acc) == IF s = <<>> THEN acc ELSE Value(Tail(s), acc * 10 + to_digit(Head(s)))

AcceptedForm(v) ==
    \/ v.type = "int" /\ 0 <= v.n /\ v.n <= U32_MAX
    \/ /\ v.type = "str"
       /\ Len(v.s) >= 3
       /\ SubSeq(v.s, 1, 2) \in { <<"A", "S">>, <<"a", "s">> }
       /\ AllDigits(SubSeq(v.s, 3, Len(v.s)))
       /\ Value(SubSeq(v.s, 3, Len(v.s)), 0) <= U32_MAX

\* C22: a document is parsed only if every one of its AS-number fields has
\* one of the two accepted forms.
C22_OnlyAcceptedForms ==
    (document # None /\ parsed # None) =>
        \A i \in 1..Len(AsnFields(document[1])) : AcceptedForm(AsnFields(document[1])[i])

\* the expires fields of a document that are present
ExpiresFields(doc) ==
    { doc.roas[i].expires[1] : i \in { j \in 1..Len(doc.roas) : doc.roas[j].expires # None } }
    \cup { doc.aspas[i].expires[1] :
               i \in { j \in 1..Len(doc.aspas) : doc.aspas[j].expires # None } }

\* C23: a document with a negative expires field is not parsed, and a
\* document whose expires fields are non-negative integers of the u64 range
\* and whose other fields are well formed is parsed.
C23_ExpiresNonNegative ==
    document # None =>
        /\ (\E e \in ExpiresFields(document[1]) : e < 0) => parsed = None
        /\ ( /\ \A e \in ExpiresFields(document[1]) : 0 <= e /\ e <= U64_MAX
             /\ \A i \in 1..Len(AsnFields(document[1])) :
                    AcceptedForm(AsnFields(document[1])[i])
             /\ \A i \in 1..Len(document[1].aspas) :
                    document[1].aspas[i].providers.type = "array" )
          => parsed # None

\* the ROA half of C23: the custom deserializer of the ROA expires field
C23_RoaExpiresNonNegative ==
    (document # None /\ document[1].aspas = <<>>) =>
        /\ (\E e \in ExpiresFields(document[1]) : e < 0) => parsed = None
        /\ ( /\ \A e \in ExpiresFields(document[1]) : 0 <= e /\ e <= U64_MAX
             /\ \A i \in 1..Len(AsnFields(document[1])) :
                    AcceptedForm(AsnFields(document[1])[i]) )
          => parsed # None

ParseableTexts == { q.prefix : q \in { c \in QueryCalls : parse_IpNet(c.prefix) # None } }

\* C24: a query returns the module-not-loaded error exactly when no load has
\* succeeded on the context so far; on a loaded context it returns the IpNet
\* error exactly when the prefix text does not parse, and a value otherwise.
C24_QueriesFailOnInputOnly ==
    /\ rpki_trie = None <=> origin = None
    /\ seen # None =>
          LET a == seen[1].answer
              q == seen[1].call
          IN
          /\ (a.error = "ModuleNotLoaded") <=> (origin = None)
          /\ origin # None =>
                /\ (a.error = "IpNetError") <=> (q.prefix \notin ParseableTexts)
                /\ a.ok <=> (q.prefix \in ParseableTexts)

\* a query answered Unknown after a load that stored nothing for the prefix,
\* asked after an earlier load and a failed load
C24_Witness ==
    /\ seen # None
    /\ seen[1].answer = QueryOk("Unknown")
    /\ origin # None
    /\ result = "err"

\* C25: every record held by the trie has a max_length at least the length
\* of its own prefix.
C25_MaxLengthCoversPrefix ==
    \A r \in Stored(rt) : r.max_length >= prefix_len(r.prefix)

Unbounded(t) == \A r \in Stored(t) : r.not_before = None /\ r.not_after = None

\* a check time given by the caller, or none and the time the clock shows
CheckTimes ==
    { [check_time |-> Some(t), now |-> 0] : t \in Times }
    \cup { [check_time |-> None, now |-> t] : t \in Times }

\* C26: for every prefix, ASN and check time, given or taken from the clock:
\* validate_check_expiry is Invalid exactly when validate is; it is Valid only
\* if validate is; it is Unknown if validate is; and on a trie without time
\* bounds the two agree.
C26_ExpiryRefinesValidate ==
    \A q \in Prefixes, asn \in QueryAsns, c \in CheckTimes :
            LET v == validate(rt, q, asn)
                e == validate_check_expiry(rt, q, asn, c.check_time, c.now)
            IN
            /\ (e = "Invalid") <=> (v = "Invalid")
            /\ (e = "Valid") => (v = "Valid")
            /\ (v = "Unknown") => (e = "Unknown")
            /\ Unbounded(rt) => e = v

\* a record outside its window at time 2: Valid without the time check,
\* Unknown with it, while another ASN is Invalid under both
C26_Witness ==
    /\ validate(rt, Net("v4", 0, 1), 1) = "Valid"
    /\ validate_check_expiry(rt, Net("v4", 0, 1), 1, Some(2), 0) = "Unknown"
    /\ validate_check_expiry(rt, Net("v4", 0, 1), 1, Some(1), 0) = "Valid"
    /\ validate_check_expiry(rt, Net("v4", 0, 1), 2, None, 1) = "Invalid"

Reverse(seq) == [i \in 1..Len(seq) |-> seq[Len(seq) + 1 - i]]

\* the two tries answer every query alike
SameAnswers(t1, t2) ==
    \A q \in Prefixes :
        /\ Range(lookup_by_prefix(t1, q)) = Range(lookup_by_prefix(t2, q))
        /\ \A asn \in QueryAsns :
              /\ validate(t1, q, asn) = validate(t2, q, asn)
              /\ \A t \in Times :
                    validate_check_expiry(t1, q, asn, Some(t), t)
                        = validate_check_expiry(t2, q, asn, Some(t), t)

\* C27: inserting the records of a list in the reverse order gives a trie
\* that answers every query as the trie built in the given order does.
C27_Step ==
    \A roas \in SeqsUpTo(RecordInputs, 2) :
        InsertRoas(roas) => SameAnswers(rt', insert_roas(rt, Reverse(roas)))

C27_OrderIndependent == [][C27_Step]_vars

\* the part of C27 that holds: validate does not depend on the order
C27_ValidateStep ==
    \A roas \in SeqsUpTo(RecordInputs, 2) :
        InsertRoas(roas) =>
            \A q \in Prefixes, asn \in QueryAsns :
                validate(rt', q, asn) = validate(insert_roas(rt, Reverse(roas)), q, asn)

C27_ValidateOrderIndependent == [][C27_ValidateStep]_vars

\* C28: across every step a Valid outcome of validate stays Valid and an
\* outcome that is not Unknown does not become Unknown; every stored record
\* stays stored.
C28_Step ==
    /\ Stored(rt) \subseteq Stored(rt')
    /\ \A q \in Prefixes, asn \in QueryAsns :
          /\ validate(rt, q, asn) = "Valid" => validate(rt', q, asn) = "Valid"
          /\ validate(rt, q, asn) # "Unknown" => validate(rt', q, asn) # "Unknown"

C28_ValidStaysValid == [][C28_Step]_vars

\* the last insert_roa added a record for ASN 2 under a key that held a
\* record for ASN 1: ASN 2 went from Invalid to Valid, ASN 1 stayed Valid
C28_Witness ==
    /\ lastOp = "insert_roa"
    /\ lastRoa # None /\ lastRoa[1].asn = 2 /\ lastRoa[1].prefix = Net("v4", 0, 1)
    /\ lastRet = FALSE
    /\ \E r \in Stored(rt) : r.asn = 1 /\ r.prefix = Net("v4", 0, 1)
    /\ \A r \in Stored(rt) : r.prefix = Net("v4", 0, 1)
    /\ validate(rt, Net("v4", 0, 1), 1) = "Valid"
    /\ validate(rt, Net("v4", 0, 1), 2) = "Valid"

\* C30: the registry of every stored record is read back from its display
\* text as the same registry.
C30_RirRoundTrip ==
    \A r \in Stored(rt) :
        r.rir # None => Rir_from_str(Rir_to_string(r.rir[1])) = r.rir

\* the four registries other than RIPENCC do round-trip
C30_OthersRoundTrip ==
    \A rir \in Rirs \ {"RIPENCC"} : Rir_from_str(Rir_to_string(rir)) = Some(rir)

\* C29: when extract_file_from_tgz has returned, the stop signal is raised
\* and gunzip has been killed.
C29_StoppedAndKilledOnReturn ==
    consumer = "returned" => (should_stop /\ gunzip = "dead")

\* the return paths after the loop do raise the signal and kill gunzip
C29_AfterLoopStoppedAndKilled ==
    (consumer = "returned" /\ (extracted[1].ok \/ extracted[1] = NotFound))
        => (should_stop /\ gunzip = "dead")

====
